---- MODULE Spec2Model ----
(***************************************************************************)
(* Model of the immich-albums processing pipeline: trip segmentation       *)
(* (DetectTrips), session clustering (DetectSessions), location inference  *)
(* (InferLocations) and the stage commands that connect them through the   *)
(* store.                                                                  *)
(*                                                                         *)
(* Scales.  Times are whole hours.  Positions are kilometres along one     *)
(* line, so the haversine distance of two points is the absolute           *)
(* difference of their positions.  Confidences are thousandths.            *)
(***************************************************************************)
EXTENDS Integers, Sequences, FiniteSets, TLC

\* ------------------------------------------------------------------------
\* Bounds of the model
\* ------------------------------------------------------------------------
MaxSessions == 3
MaxTime == 2
MaxDur == 1
MaxAssets == 4
MaxPhotoTime == 3
MaxGps == 3
MaxRows == 2
MaxGapHours == 340
MaxGroupSize == 20
MaxCalls == 2
MaxMergeSessions == 3
MaxRuns == 3
MaxTripPhotos == 3
MaxAlbumTrips == 2
MaxAlbumRuns == 3

\* ------------------------------------------------------------------------
\* Program constants
\* ------------------------------------------------------------------------
DefaultMinDistanceFromHome == 50
NoHomesDistance == 999999
InterpolationPenaltyTenths == 9
MinimumConfidenceThreshold == 100
SessionMinConfidence == 300
MinAssetsToSplit == 20
MinCounterSamples == 10
AbsoluteGapThreshold == 1000
RelativeGapFactor == 20
MinClusterSize == 5
maxMergedSessionRadius == 50

VARIABLES
    \* DetectTrips
    sessions,              \* the sessions argument after sort.Slice by StartTime
    homes,                 \* set of home positions
    criteria,              \* TripCriteria
    perIterationLoopVar,   \* TRUE: every loop iteration has its own variable s
                           \* (language version >= 1.22); FALSE: one s is
                           \* shared by all iterations
    pc,                    \* "start", "loop", "done"
    i,                     \* index of the next element of allSessions (1-based)
    s,                     \* content of the range variable s.session
    currentTripSessions,
    lastHomeReturnTime,    \* NilPtr, or the iteration whose s the pointer addresses
    inTrip,
    trips,
    \* clusterAssetsIntoSessions
    assets,                \* one photographer's located assets, sorted by time
    params,                \* ClusteringParams
    cpc,                   \* "idle", "start", "loop", "done"
    j,                     \* index of curr in assets (1-based)
    cluster,               \* [sessions, currentSession] of the clustering loop
    \* inferSingleLocation
    photographerGPS,       \* the photographer's GPS assets, sorted by time
    target,                \* the asset without GPS
    ipc,                   \* "idle", "call", "returned", "interpolated"
    inference,             \* the returned *LocationInference
    nearestIdx,            \* place in photographerGPS findNearestInTime returned, 0 for nil
    \* the commands infer-locations and detect-sessions over the database
    dbAssets,              \* rows of the assets table, in local_datetime order
    dbDevices,             \* devices table: device id -> photographer label
    dbSessions,            \* rows of the sessions table
    clustered,             \* [ID, Pos] of the assets the last DetectSessions clustered
    completed,             \* commands that have completed
    lastCommand,           \* outcome of the last command
    inferences,            \* the list the last InferLocations returned
    resolved,              \* asset id -> device id findMatchingDeviceMap gave in the last
                           \* InferLocations
    minConfidenceUsed,     \* --min-confidence of the last infer-locations run
    \* calculateTimeBasedConfidence on two gaps
    hoursDiff,             \* the two gaps in hours
    decayed,               \* <<>>, or per gap [Time, Interpolated] confidences
    \* identifySubDevices on one make/model group
    withCounters,          \* the counters of the group, after sort.Slice
    uncounted,             \* number of assets of the group without a counter
    dvpc,                  \* "idle", "start", "scan", "filter", "done"
    scanIdx,               \* index i of the scan (1-based)
    clusters,              \* list of [minCounter, maxCounter, size]
    discovered,            \* the returned devices, [ID, PhotoCount]
    deviceCounterRanges,   \* the process-wide table device id -> [min, max]
    \* findMatchingDeviceMap in a stage that runs after discover
    discoverRanges,        \* deviceCounterRanges as the discover process left it
    storedDevices,         \* the devices read from the store, id -> photographer
    photo,                 \* the asset matched
    matchResults,          \* the ids returned by the calls so far
    sameProcessResults,    \* the ids returned by calls in the process that ran
                           \* DiscoverDevices
    \* MergeSessions
    mergeInput,            \* the sessions passed in
    mergeParams,           \* [maxTimeGapHours, maxDistanceKM]
    mpc,                   \* "idle", "start", "loop", "done", "trip"
    sortedSessions,        \* sessions after sort.Slice
    mi,                    \* index i of the loop (1-based)
    currentGroup,          \* the group being built
    merged,                \* the sessions to return
    tripPhotographers,     \* Trip.Photographers of the trip made of the returned
                           \* sessions, as the list of the names it joins
    \* the stage commands over the store
    devicesTable,          \* devices table: id -> [PhotoCount, Photographer]
    sessionsTable,         \* rows of the sessions table
    tripsTable,            \* rows of the trips table
    lastRun,               \* [command, outcome, detected] of the last command
    runs,                  \* number of commands run
    \* extractLocationFromSessions on the photos of one trip
    tripPhotos,            \* [City, Country] of the photos of the trip's sessions
    locations,             \* the location strings returned by the runs so far
    \* create-albums over the trips table and the albums of Immich
    albumTrips,            \* rows of the trips table: [ID, AlbumID, ExcludeFromAlbum],
                           \* AlbumID 0 for the empty string
    tripSeq,               \* the last id AUTOINCREMENT gave to a trips row
    immichAlbums,          \* ids of the albums that exist in Immich
    albumCalls,            \* the calls made so far: [Run, Op, Trip, Album, Stored, Ok]
    commands               \* the commands run so far

tripVars == <<sessions, homes, criteria, perIterationLoopVar, pc, i, s,
              currentTripSessions, lastHomeReturnTime, inTrip, trips>>

clusterVars == <<assets, params, cpc, j, cluster>>

inferVars == <<photographerGPS, target, ipc, inference, nearestIdx>>

pipelineVars == <<dbAssets, dbDevices, dbSessions, clustered, completed, lastCommand,
                  inferences, resolved, minConfidenceUsed>>

decayVars == <<hoursDiff, decayed>>

deviceVars == <<withCounters, uncounted, dvpc, scanIdx, clusters, discovered,
                deviceCounterRanges>>

matchVars == <<discoverRanges, storedDevices, photo, matchResults, sameProcessResults>>

mergeVars == <<mergeInput, mergeParams, mpc, sortedSessions, mi, currentGroup, merged,
               tripPhotographers>>

storeVars == <<devicesTable, sessionsTable, tripsTable, lastRun, runs>>

nameVars == <<tripPhotos, locations>>

albumVars == <<albumTrips, tripSeq, immichAlbums, albumCalls, commands>>

vars == <<tripVars, clusterVars, inferVars, pipelineVars, decayVars, deviceVars, matchVars, mergeVars, storeVars, nameVars, albumVars>>

nonTripVars == <<clusterVars, inferVars, pipelineVars, decayVars, deviceVars, matchVars, mergeVars, storeVars, nameVars, albumVars>>

nonClusterVars == <<tripVars, inferVars, pipelineVars, decayVars, deviceVars, matchVars, mergeVars, storeVars, nameVars, albumVars>>

nonInferVars == <<tripVars, clusterVars, pipelineVars, decayVars, deviceVars, matchVars, mergeVars, storeVars, nameVars, albumVars>>

nonPipelineVars == <<tripVars, clusterVars, inferVars, decayVars, deviceVars, matchVars, mergeVars, storeVars, nameVars, albumVars>>

nonDecayVars == <<tripVars, clusterVars, inferVars, pipelineVars, deviceVars, matchVars, mergeVars, storeVars, nameVars, albumVars>>

nonDeviceVars == <<tripVars, clusterVars, inferVars, pipelineVars, decayVars, matchVars, mergeVars, storeVars, nameVars, albumVars>>

nonMatchVars == <<tripVars, clusterVars, inferVars, pipelineVars, decayVars, deviceVars, mergeVars, storeVars, nameVars, albumVars>>

nonMergeVars == <<tripVars, clusterVars, inferVars, pipelineVars, decayVars, deviceVars, matchVars, storeVars, nameVars, albumVars>>

nonStoreVars == <<tripVars, clusterVars, inferVars, pipelineVars, decayVars, deviceVars, matchVars, mergeVars, nameVars, albumVars>>

nonNameVars == <<tripVars, clusterVars, inferVars, pipelineVars, decayVars, deviceVars, matchVars, mergeVars, storeVars, albumVars>>

nonAlbumVars == <<tripVars, clusterVars, inferVars, pipelineVars, decayVars, deviceVars, matchVars, mergeVars, storeVars, nameVars>>

\* ------------------------------------------------------------------------
\* Helpers
\* ------------------------------------------------------------------------
Abs(x) == IF x < 0 THEN -x ELSE x

Last(q) == q[Len(q)]

SeqToSet(q) == {q[k] : k \in 1..Len(q)}

\* CalculateDistance: great-circle distance, here on one line
CalculateDistance(p1, p2) == Abs(p2 - p1)

NilPtr == 0

NoSession == [ID |-> 0, StartTime |-> 0, EndTime |-> 0, CenterPos |-> 0]

\* ------------------------------------------------------------------------
\* DetectTrips
\* ------------------------------------------------------------------------
RECURSIVE MinOver(_, _, _)
MinOver(pos, hs, acc) ==
    IF hs = {} THEN acc
    ELSE LET h == CHOOSE x \in hs : TRUE
             d == CalculateDistance(pos, h)
         IN MinOver(pos, hs \ {h}, IF d < acc THEN d ELSE acc)

calculateMinDistanceFromHomes(session, hs) ==
    IF hs = {} THEN NoHomesDistance
    ELSE MinOver(session.CenterPos, hs, NoHomesDistance)

\* atHome flag of sessionWithHomeStatus
AtHome(session) ==
    calculateMinDistanceFromHomes(session, homes) < criteria.MinDistanceFromHome

awayCount == Cardinality({k \in 1..Len(sessions) : ~AtHome(sessions[k])})

\* sort.Slice(sessions, StartTime.Before): the order DetectTrips iterates in
SortedByStartTime(q) ==
    \A k \in 1..(Len(q) - 1) : q[k].StartTime <= q[k + 1].StartTime

shouldForceSplitNoNegation(cts, cur) ==
    /\ Len(cts) > 0
    /\ criteria.ForceSplitDates # {}
    /\ \E splitDate \in criteria.ForceSplitDates :
          /\ Last(cts).EndTime > splitDate
          /\ cur.StartTime > splitDate

shouldForceSplit(cts, cur) ==
    /\ Len(cts) > 0
    /\ criteria.ForceSplitDates # {}
    /\ \E splitDate \in criteria.ForceSplitDates :
          /\ ~(Last(cts).EndTime > splitDate)
          /\ cur.StartTime > splitDate

createTripFromSessions(ss) ==
    [ StartTime    |-> ss[1].StartTime,
      EndTime      |-> Last(ss).EndTime,
      Sessions     |-> ss,
      SessionCount |-> Len(ss) ]

MeetsTripMinimumsNoDuration(ss) ==
    Len(ss) >= criteria.MinSessions

\* the two tests every finalization site applies before appending a trip
MeetsTripMinimums(ss) ==
    /\ Len(ss) >= criteria.MinSessions
    /\ createTripFromSessions(ss).EndTime - createTripFromSessions(ss).StartTime
          >= criteria.MinDuration

FinalizeTrip(ts, ss) ==
    IF MeetsTripMinimums(ss) THEN Append(ts, createTripFromSessions(ss)) ELSE ts

\* *lastHomeReturnTime as read while the range variable holds cur
DerefHomeReturn(ptr, cur) ==
    IF perIterationLoopVar THEN sessions[ptr].StartTime ELSE cur.StartTime

HomeStayExceededInclusive(ptr, cur) ==
    cur.StartTime - DerefHomeReturn(ptr, cur) >= criteria.MaxHomeStayDuration

HomeStayExceeded(ptr, cur) ==
    cur.StartTime - DerefHomeReturn(ptr, cur) > criteria.MaxHomeStayDuration

WithinSessionGap(prev, cur) ==
    cur.StartTime - prev.EndTime <= criteria.MaxSessionGap

\* "If this is the last session and we're in a trip, finalize it"
EndOfInput(ts, cts, open) ==
    IF i = Len(sessions) /\ open /\ Len(cts) > 0 THEN FinalizeTrip(ts, cts) ELSE ts

\* a session lasts no time or MaxDur hours; it lies at a home (0 km) or 100 km
\* away.  Without homes the position is never read (the distance is the
\* constant NoHomesDistance), so one position stands for all.
SessionDomain ==
    [ StartTime : 0..MaxTime, Dur : {0, MaxDur},
      CenterPos : IF homes = {} THEN {100} ELSE {0, 100} ]

\* the session with the fields DetectTrips reads; ID is its place in the input
MakeSession(k, d) ==
    [ ID |-> k, StartTime |-> d.StartTime, EndTime |-> d.StartTime + d.Dur,
      CenterPos |-> d.CenterPos ]

\* the flag values tried: max-session-gap below and above max-home-stay
CriteriaInputs ==
    { c \in [ MinDistanceFromHome : {DefaultMinDistanceFromHome},
              MaxSessionGap       : {1, 2},
              MinDuration         : {0, 1},
              MinSessions         : {1, 2},
              MaxHomeStayDuration : {1, 2},
              ForceSplitDates     : {{}, {1}} ] :
        c.MaxSessionGap # c.MaxHomeStayDuration }

TripInit ==
    /\ homes \in {{}, {0}}
    /\ \E n \in 0..MaxSessions :
          \E f \in [1..n -> SessionDomain] :
             /\ SortedByStartTime(f)
             /\ sessions = [k \in 1..n |-> MakeSession(k, f[k])]
    /\ criteria \in CriteriaInputs
    /\ perIterationLoopVar \in BOOLEAN
    /\ pc = "start"
    /\ i = 1
    /\ s = NoSession
    /\ currentTripSessions = <<>>
    /\ lastHomeReturnTime = NilPtr
    /\ inTrip = FALSE
    /\ trips = <<>>

TripIdle ==
    /\ sessions = <<>>
    /\ homes = {}
    /\ criteria = [ MinDistanceFromHome |-> DefaultMinDistanceFromHome,
                    MaxSessionGap |-> 0, MinDuration |-> 0, MinSessions |-> 0,
                    MaxHomeStayDuration |-> 0, ForceSplitDates |-> {} ]
    /\ perIterationLoopVar = TRUE
    /\ pc = "idle"
    /\ i = 1
    /\ s = NoSession
    /\ currentTripSessions = <<>>
    /\ lastHomeReturnTime = NilPtr
    /\ inTrip = FALSE
    /\ trips = <<>>

tripInputs == <<sessions, homes, criteria, perIterationLoopVar>>

\* len(sessions) == 0, or awayCount == 0: return nil
ReturnNil ==
    /\ pc = "start"
    /\ (Len(sessions) = 0 \/ awayCount = 0)
    /\ pc' = "done"
    /\ UNCHANGED <<tripInputs, i, s, currentTripSessions, lastHomeReturnTime, inTrip, trips>>
    /\ UNCHANGED nonTripVars

EnterLoop ==
    /\ pc = "start"
    /\ Len(sessions) > 0
    /\ awayCount > 0
    /\ pc' = "loop"
    /\ UNCHANGED <<tripInputs, i, s, currentTripSessions, lastHomeReturnTime, inTrip, trips>>
    /\ UNCHANGED nonTripVars

InLoop == pc = "loop" /\ i <= Len(sessions)

\* the forced-split branch ends with continue: the end-of-input test is not run
ForcedSplit ==
    /\ InLoop
    /\ shouldForceSplit(currentTripSessions, sessions[i])
    /\ inTrip
    /\ Len(currentTripSessions) > 0
    /\ s' = sessions[i]
    /\ trips' = FinalizeTrip(trips, currentTripSessions)
    /\ currentTripSessions' = <<sessions[i]>>
    /\ inTrip' = TRUE
    /\ lastHomeReturnTime' = NilPtr
    /\ i' = i + 1
    /\ UNCHANGED <<tripInputs, pc>>
    /\ UNCHANGED nonTripVars

NoForcedSplit ==
    ~(shouldForceSplit(currentTripSessions, sessions[i]) /\ inTrip
        /\ Len(currentTripSessions) > 0)

AtHomeSession ==
    /\ InLoop
    /\ NoForcedSplit
    /\ AtHome(sessions[i])
    /\ s' = sessions[i]
    /\ lastHomeReturnTime' =
          IF inTrip /\ lastHomeReturnTime = NilPtr THEN i ELSE lastHomeReturnTime
    /\ trips' = EndOfInput(trips, currentTripSessions, inTrip)
    /\ i' = i + 1
    /\ UNCHANGED <<tripInputs, pc, currentTripSessions, inTrip>>
    /\ UNCHANGED nonTripVars

AwayStartTrip ==
    /\ InLoop
    /\ NoForcedSplit
    /\ ~AtHome(sessions[i])
    /\ ~inTrip
    /\ s' = sessions[i]
    /\ currentTripSessions' = <<sessions[i]>>
    /\ inTrip' = TRUE
    /\ lastHomeReturnTime' = NilPtr
    /\ trips' = EndOfInput(trips, currentTripSessions', TRUE)
    /\ i' = i + 1
    /\ UNCHANGED <<tripInputs, pc>>
    /\ UNCHANGED nonTripVars

AwayHomeStayExceeded ==
    /\ InLoop
    /\ NoForcedSplit
    /\ ~AtHome(sessions[i])
    /\ inTrip
    /\ lastHomeReturnTime # NilPtr
    /\ HomeStayExceeded(lastHomeReturnTime, sessions[i])
    /\ s' = sessions[i]
    /\ currentTripSessions' = <<sessions[i]>>
    /\ lastHomeReturnTime' = NilPtr
    /\ trips' = EndOfInput(FinalizeTrip(trips, currentTripSessions),
                           currentTripSessions', inTrip)
    /\ i' = i + 1
    /\ UNCHANGED <<tripInputs, pc, inTrip>>
    /\ UNCHANGED nonTripVars

AwayBriefReturn ==
    /\ InLoop
    /\ NoForcedSplit
    /\ ~AtHome(sessions[i])
    /\ inTrip
    /\ lastHomeReturnTime # NilPtr
    /\ ~HomeStayExceeded(lastHomeReturnTime, sessions[i])
    /\ s' = sessions[i]
    /\ currentTripSessions' = Append(currentTripSessions, sessions[i])
    /\ lastHomeReturnTime' = NilPtr
    /\ trips' = EndOfInput(trips, currentTripSessions', inTrip)
    /\ i' = i + 1
    /\ UNCHANGED <<tripInputs, pc, inTrip>>
    /\ UNCHANGED nonTripVars

AwayWithinGap ==
    /\ InLoop
    /\ NoForcedSplit
    /\ ~AtHome(sessions[i])
    /\ inTrip
    /\ lastHomeReturnTime = NilPtr
    /\ WithinSessionGap(Last(currentTripSessions), sessions[i])
    /\ s' = sessions[i]
    /\ currentTripSessions' = Append(currentTripSessions, sessions[i])
    /\ trips' = EndOfInput(trips, currentTripSessions', inTrip)
    /\ i' = i + 1
    /\ UNCHANGED <<tripInputs, pc, inTrip, lastHomeReturnTime>>
    /\ UNCHANGED nonTripVars

AwayGapExceeded ==
    /\ InLoop
    /\ NoForcedSplit
    /\ ~AtHome(sessions[i])
    /\ inTrip
    /\ lastHomeReturnTime = NilPtr
    /\ ~WithinSessionGap(Last(currentTripSessions), sessions[i])
    /\ s' = sessions[i]
    /\ currentTripSessions' = <<sessions[i]>>
    /\ lastHomeReturnTime' = NilPtr
    /\ trips' = EndOfInput(FinalizeTrip(trips, currentTripSessions),
                           currentTripSessions', inTrip)
    /\ i' = i + 1
    /\ UNCHANGED <<tripInputs, pc, inTrip>>
    /\ UNCHANGED nonTripVars

ReturnTrips ==
    /\ pc = "loop"
    /\ i > Len(sessions)
    /\ pc' = "done"
    /\ UNCHANGED <<tripInputs, i, s, currentTripSessions, lastHomeReturnTime, inTrip, trips>>
    /\ UNCHANGED nonTripVars

TripNext ==
    \/ ReturnNil
    \/ EnterLoop
    \/ ForcedSplit
    \/ AtHomeSession
    \/ AwayStartTrip
    \/ AwayHomeStayExceeded
    \/ AwayBriefReturn
    \/ AwayWithinGap
    \/ AwayGapExceeded
    \/ ReturnTrips

\* ------------------------------------------------------------------------
\* Properties of DetectTrips
\* ------------------------------------------------------------------------
TripSessionIDs(t) == {t.Sessions[m].ID : m \in 1..Len(t.Sessions)}

InSomeTrip(a) == \E n \in 1..Len(trips) : a \in TripSessionIDs(trips[n])

SameTrip(a, b) ==
    \E n \in 1..Len(trips) : a \in TripSessionIDs(trips[n]) /\ b \in TripSessionIDs(trips[n])

Away(k) == ~AtHome(sessions[k])

\* C1: two away sessions A then B and nothing else, each meeting min-sessions
\* and min-duration on its own, with a split date between A's end and B's
\* start, give exactly the two trips <<A>> and <<B>>, whatever max-session-gap
\* and max-home-stay are.
C1_ForcedSplitGivesTwoTrips ==
    ( /\ pc = "done"
      /\ Len(sessions) = 2
      /\ Away(1) /\ Away(2)
      /\ MeetsTripMinimums(<<sessions[1]>>)
      /\ MeetsTripMinimums(<<sessions[2]>>)
      /\ \E d \in criteria.ForceSplitDates :
            sessions[1].EndTime < d /\ d < sessions[2].StartTime )
    => trips = << createTripFromSessions(<<sessions[1]>>),
                  createTripFromSessions(<<sessions[2]>>) >>

\* C2: when the last session has been processed and a trip is open, that trip
\* is in the returned list exactly if it meets min-sessions and min-duration.
C2_OpenTripFinalizedAtEnd ==
    (pc = "done" /\ inTrip /\ Len(currentTripSessions) > 0)
    => ( (\E n \in 1..Len(trips) : trips[n].Sessions = currentTripSessions)
         <=> MeetsTripMinimums(currentTripSessions) )

\* an away session a, then only at-home sessions (at least one), then an away
\* session b, with no split date from a's end up to b's start
HomeStayPair(a, b) ==
    /\ a + 1 < b
    /\ Away(a) /\ Away(b)
    /\ \A k \in (a + 1)..(b - 1) : ~Away(k)
    /\ ~ \E d \in criteria.ForceSplitDates :
            sessions[a].EndTime <= d /\ d < sessions[b].StartTime

PendingHomeReturn ==
    IF lastHomeReturnTime = NilPtr THEN -1 ELSE DerefHomeReturn(lastHomeReturnTime, s)

ConsecutiveAway(a, b) ==
    /\ a < b
    /\ Away(a) /\ Away(b)
    /\ \A k \in (a + 1)..(b - 1) : ~Away(k)

BoundaryExplained(a, b) ==
    \/ \E d \in criteria.ForceSplitDates :
          sessions[a].EndTime <= d /\ d < sessions[b].StartTime
    \/ /\ b = a + 1
       /\ sessions[b].StartTime - sessions[a].EndTime > criteria.MaxSessionGap
    \/ /\ b > a + 1
       /\ sessions[b].StartTime - sessions[a + 1].StartTime
             > criteria.MaxHomeStayDuration

\* C5: two away sessions that are consecutive among the away sessions and do
\* not end up in the same trip are separated by a split date (earlier.end <=
\* D < later.start), or by a session gap above max-session-gap with no
\* at-home session between them, or by a home stay above max-home-stay
\* measured from the start of the first at-home session between them.
C5_NoArbitraryBoundary ==
    pc = "done"
    => \A a, b \in 1..Len(sessions) :
          ( /\ ConsecutiveAway(a, b)
            /\ (InSomeTrip(a) \/ InSomeTrip(b))
            /\ ~SameTrip(a, b) )
          => BoundaryExplained(a, b)

C5_Witness ==
    /\ pc = "done"
    /\ Len(trips) = 2
    /\ criteria.ForceSplitDates = {}
    /\ \E a, b \in 1..Len(sessions) :
          /\ ConsecutiveAway(a, b) /\ b > a + 1
          /\ InSomeTrip(a) /\ InSomeTrip(b) /\ ~SameTrip(a, b)

\* C6: no returned trip has consecutive member sessions P, Q with a split
\* date D such that P.end < D < Q.start.
C6_SplitDateNeverCrossed ==
    \A n \in 1..Len(trips) :
       \A m \in 1..(Len(trips[n].Sessions) - 1) :
          ~ \E d \in criteria.ForceSplitDates :
               /\ trips[n].Sessions[m].EndTime < d
               /\ d < trips[n].Sessions[m + 1].StartTime

C6_Witness ==
    /\ pc = "done"
    /\ criteria.ForceSplitDates # {}
    /\ \E n \in 1..Len(trips) :
          /\ Len(trips[n].Sessions) >= 2
          /\ \E d \in criteria.ForceSplitDates :
                /\ Last(trips[n].Sessions).EndTime <= d
                /\ \E k \in 1..Len(sessions) : sessions[k].StartTime > d

\* C32: in every returned trip each two consecutive member sessions P then Q
\* satisfy Q.start - P.end <= max-session-gap.
C32_SessionGapWithinTrip ==
    \A t \in 1..Len(trips) :
        \A k \in 1..(Len(trips[t].Sessions) - 1) :
            trips[t].Sessions[k + 1].StartTime - trips[t].Sessions[k].EndTime
                <= criteria.MaxSessionGap

\* C33: every member session of every returned trip is away from home.
C33_OnlyAwaySessionsInTrips ==
    \A t \in 1..Len(trips) :
        \A k \in 1..Len(trips[t].Sessions) : ~AtHome(trips[t].Sessions[k])

\* C39: the time span of every returned trip covers each of its member
\* sessions.
C39_TripSpanCoversSessions ==
    \A t \in 1..Len(trips) :
        \A k \in 1..Len(trips[t].Sessions) :
            /\ trips[t].StartTime <= trips[t].Sessions[k].StartTime
            /\ trips[t].Sessions[k].EndTime <= trips[t].EndTime

\* C7: every returned trip has a non-empty session list of at least
\* min-sessions sessions, SessionCount equal to its length, and
\* EndTime - StartTime >= min-duration.
C7_TripMeetsMinimums ==
    \A n \in 1..Len(trips) :
       /\ Len(trips[n].Sessions) >= 1
       /\ Len(trips[n].Sessions) >= criteria.MinSessions
       /\ trips[n].SessionCount = Len(trips[n].Sessions)
       /\ trips[n].EndTime - trips[n].StartTime >= criteria.MinDuration

C7_Witness ==
    /\ pc = "done"
    /\ criteria.MinSessions = 2
    /\ criteria.MinDuration = 1
    /\ Len(trips) >= 1
    /\ \E k \in 1..Len(sessions) : Away(k) /\ ~InSomeTrip(k)


\* ------------------------------------------------------------------------
\* clusterAssetsIntoSessions
\* ------------------------------------------------------------------------
\* sort.Slice(located, LocalDateTime.Before), then the per-photographer split
SortedByLocalDateTime(q) ==
    \A k \in 1..(Len(q) - 1) : q[k].LocalDateTime <= q[k + 1].LocalDateTime

createSessionFromAssets(as, photographer) ==
    [ StartTime    |-> as[1].LocalDateTime,
      EndTime      |-> Last(as).LocalDateTime,
      AssetIDs     |-> [k \in 1..Len(as) |-> as[k].ID],
      Photographer |-> photographer ]

BelongsToSessionTimeOnly(prev, curr, ps) ==
    curr.LocalDateTime - prev.LocalDateTime <= ps.MaxTimeGapHours

\* withinTime && withinDistance
BelongsToSession(prev, curr, ps) ==
    /\ curr.LocalDateTime - prev.LocalDateTime <= ps.MaxTimeGapHours
    /\ CalculateDistance(prev.Pos, curr.Pos) <= ps.MaxDistanceKM

EmitSessionAlways(ss, cur, photographer, ps) ==
    Append(ss, createSessionFromAssets(cur, photographer))

\* the session is kept only if it meets the minimum size
EmitSession(ss, cur, photographer, ps) ==
    IF Len(cur) >= ps.MinPhotosInSession
    THEN Append(ss, createSessionFromAssets(cur, photographer))
    ELSE ss

\* as ClusterStep, curr tested against the first member of the current
\* session
ClusterStepFromFirst(st, prev, curr, photographer, ps) ==
    IF BelongsToSession(st.currentSession[1], curr, ps)
    THEN [ sessions |-> st.sessions,
           currentSession |-> Append(st.currentSession, curr) ]
    ELSE [ sessions |-> EmitSession(st.sessions, st.currentSession, photographer, ps),
           currentSession |-> <<curr>> ]

\* one iteration of the loop over assets[1:]
ClusterStep(st, prev, curr, photographer, ps) ==
    IF BelongsToSession(prev, curr, ps)
    THEN [ sessions |-> st.sessions,
           currentSession |-> Append(st.currentSession, curr) ]
    ELSE [ sessions |-> EmitSession(st.sessions, st.currentSession, photographer, ps),
           currentSession |-> <<curr>> ]

RECURSIVE ClusterLoop(_, _, _, _, _)
ClusterLoop(as, k, st, photographer, ps) ==
    IF k > Len(as) THEN st
    ELSE ClusterLoop(as, k + 1,
                     ClusterStep(st, as[k - 1], as[k], photographer, ps),
                     photographer, ps)

clusterAssetsIntoSessions(as, photographer, ps) ==
    IF Len(as) = 0 THEN <<>>
    ELSE LET st == ClusterLoop(as, 2,
                               [sessions |-> <<>>, currentSession |-> <<as[1]>>],
                               photographer, ps)
         IN EmitSession(st.sessions, st.currentSession, photographer, ps)

\* the located asset with the fields the clustering reads; ID is its place in
\* the photographer's sequence
MakeLocated(k, d) == [ ID |-> k, LocalDateTime |-> d.LocalDateTime, Pos |-> d.Pos ]

LocatedDomain == [ LocalDateTime : 0..MaxPhotoTime, Pos : {0, 4, 8} ]

ParamsInputs ==
    [ MaxTimeGapHours : {1}, MaxDistanceKM : {5}, MinPhotosInSession : {0, 2} ]

Photographer == "A"

ClusterInit ==
    /\ \E n \in 0..MaxAssets :
          \E f \in [1..n -> LocatedDomain] :
             /\ SortedByLocalDateTime(f)
             /\ assets = [k \in 1..n |-> MakeLocated(k, f[k])]
    /\ params \in ParamsInputs
    /\ cpc = "start"
    /\ j = 2
    /\ cluster = [sessions |-> <<>>, currentSession |-> <<>>]

ClusterIdle ==
    /\ assets = <<>>
    /\ params = [MaxTimeGapHours |-> 0, MaxDistanceKM |-> 0, MinPhotosInSession |-> 0]
    /\ cpc = "idle"
    /\ j = 2
    /\ cluster = [sessions |-> <<>>, currentSession |-> <<>>]

\* len(assets) == 0: return nil
ClusterReturnNil ==
    /\ cpc = "start"
    /\ Len(assets) = 0
    /\ cpc' = "done"
    /\ UNCHANGED <<assets, params, j, cluster>>
    /\ UNCHANGED nonClusterVars

ClusterBegin ==
    /\ cpc = "start"
    /\ Len(assets) > 0
    /\ cluster' = [sessions |-> <<>>, currentSession |-> <<assets[1]>>]
    /\ cpc' = "loop"
    /\ UNCHANGED <<assets, params, j>>
    /\ UNCHANGED nonClusterVars

ClusterJoin ==
    /\ cpc = "loop"
    /\ j <= Len(assets)
    /\ BelongsToSession(assets[j - 1], assets[j], params)
    /\ cluster' = ClusterStep(cluster, assets[j - 1], assets[j], Photographer, params)
    /\ j' = j + 1
    /\ UNCHANGED <<assets, params, cpc>>
    /\ UNCHANGED nonClusterVars

ClusterClose ==
    /\ cpc = "loop"
    /\ j <= Len(assets)
    /\ ~BelongsToSession(assets[j - 1], assets[j], params)
    /\ cluster' = ClusterStep(cluster, assets[j - 1], assets[j], Photographer, params)
    /\ j' = j + 1
    /\ UNCHANGED <<assets, params, cpc>>
    /\ UNCHANGED nonClusterVars

\* "Don't forget the last session", return sessions
ClusterReturn ==
    /\ cpc = "loop"
    /\ j > Len(assets)
    /\ cluster' = [ sessions |-> EmitSession(cluster.sessions, cluster.currentSession,
                                             Photographer, params),
                    currentSession |-> cluster.currentSession ]
    /\ cpc' = "done"
    /\ UNCHANGED <<assets, params, j>>
    /\ UNCHANGED nonClusterVars

ClusterNext ==
    \/ ClusterReturnNil
    \/ ClusterBegin
    \/ ClusterJoin
    \/ ClusterClose
    \/ ClusterReturn

\* ------------------------------------------------------------------------
\* Properties of clusterAssetsIntoSessions
\* ------------------------------------------------------------------------
\* C8: every returned session holds consecutive photos of the photographer's
\* time-sorted sequence, adjacent members are within max-time-gap and
\* max-distance of each other, and it has at least min-photos-per-session
\* and at least one member.
C8_SessionWellFormed ==
    \A n \in 1..Len(cluster.sessions) :
       LET ids == cluster.sessions[n].AssetIDs IN
       /\ Len(ids) >= 1
       /\ Len(ids) >= params.MinPhotosInSession
       /\ \A m \in 1..(Len(ids) - 1) :
             /\ ids[m + 1] = ids[m] + 1
             /\ assets[ids[m + 1]].LocalDateTime - assets[ids[m]].LocalDateTime
                   <= params.MaxTimeGapHours
             /\ CalculateDistance(assets[ids[m]].Pos, assets[ids[m + 1]].Pos)
                   <= params.MaxDistanceKM

C8_Witness ==
    /\ cpc = "done"
    /\ params.MinPhotosInSession = 2
    /\ Len(cluster.sessions) = 1
    /\ Len(cluster.sessions[1].AssetIDs) = 2
    /\ Len(assets) = 4
    /\ cluster.sessions = clusterAssetsIntoSessions(assets, Photographer, params)

\* the two photos are within max-time-gap and within max-distance
Adjacent(a, b) ==
    /\ assets[b].LocalDateTime - assets[a].LocalDateTime <= params.MaxTimeGapHours
    /\ CalculateDistance(assets[a].Pos, assets[b].Pos) <= params.MaxDistanceKM

\* C40: sessions are maximal runs: the photo immediately before the first
\* member of a returned session in the photographer's time-sorted sequence,
\* if any, exceeds max-time-gap or max-distance with respect to that first
\* member, and likewise the photo immediately after its last member.
C40_SessionsMaximal ==
    \A n \in 1..Len(cluster.sessions) :
       LET ids == cluster.sessions[n].AssetIDs
           first == ids[1]
           last == ids[Len(ids)]
       IN /\ first > 1 => ~Adjacent(first - 1, first)
          /\ last < Len(assets) => ~Adjacent(last, last + 1)

\* a session with a photo before its first and one after its last member
C40_Witness ==
    /\ cpc = "done"
    /\ \E n \in 1..Len(cluster.sessions) :
          LET ids == cluster.sessions[n].AssetIDs IN
          /\ Len(ids) >= 2
          /\ ids[1] > 1
          /\ ids[Len(ids)] < Len(assets)

\* ------------------------------------------------------------------------
\* inferSingleLocation
\* ------------------------------------------------------------------------
\* the nil *LocationInference
NoInference ==
    [ AssetID |-> 0, Latitude |-> 0, Longitude |-> 0, Confidence |-> 0,
      Source |-> "none" ]

Max(a, b) == IF a > b THEN a ELSE b

\* as calculateTimeBasedConfidence, the last two table rows exchanged
calculateTimeBasedConfidenceRowsExchanged(hours) ==
    CASE hours < 1   -> 1000
      [] hours < 6   -> 900
      [] hours < 24  -> 700
      [] hours < 72  -> 500
      [] hours < 168 -> 150
      [] hours < 336 -> 300
      [] OTHER       -> 100

\* confidence in thousandths for a gap in hours
calculateTimeBasedConfidence(hours) ==
    CASE hours < 1   -> 1000
      [] hours < 6   -> 900
      [] hours < 24  -> 700
      [] hours < 72  -> 500
      [] hours < 168 -> 300
      [] hours < 336 -> 150
      [] OTHER       -> 100

\* as InterpolatedConfidence, the penalty left out
InterpolatedConfidenceNoPenalty(maxTimeDiff) ==
    calculateTimeBasedConfidence(maxTimeDiff)

\* calculateTimeBasedConfidence(maxTimeDiff) * InterpolationPenalty
InterpolatedConfidence(maxTimeDiff) ==
    (calculateTimeBasedConfidence(maxTimeDiff) * InterpolationPenaltyTenths) \div 10

\* sort.Search(len, time >= target time) on a time-sorted list, 1-based: the
\* first place whose time is not before the target's, Len + 1 if there is none
SearchInsertionPoint(cands, tgt) ==
    1 + Cardinality({k \in 1..Len(cands) : cands[k].LocalDateTime < tgt.LocalDateTime})

\* as findNearestInTime, the later neighbour winning a tie
findNearestInTimeTieLater(tgt, cands) ==
    IF Len(cands) = 0 THEN 0
    ELSE LET idx == SearchInsertionPoint(cands, tgt)
             hasBefore == idx > 1
             hasAfter == idx <= Len(cands)
             diffBefore == Abs(tgt.LocalDateTime - cands[idx - 1].LocalDateTime)
             diffAfter == Abs(tgt.LocalDateTime - cands[idx].LocalDateTime)
         IN IF hasBefore
            THEN IF hasAfter /\ diffAfter <= diffBefore THEN idx ELSE idx - 1
            ELSE IF hasAfter THEN idx ELSE 0

\* the place of the nearest candidate, 0 for nil
findNearestInTime(tgt, cands) ==
    IF Len(cands) = 0 THEN 0
    ELSE LET idx == SearchInsertionPoint(cands, tgt)
             hasBefore == idx > 1
             hasAfter == idx <= Len(cands)
             diffBefore == Abs(tgt.LocalDateTime - cands[idx - 1].LocalDateTime)
             diffAfter == Abs(tgt.LocalDateTime - cands[idx].LocalDateTime)
         IN IF hasBefore
            THEN IF hasAfter /\ diffAfter < diffBefore THEN idx ELSE idx - 1
            ELSE IF hasAfter THEN idx ELSE 0

interpolateLocation(tgt, gpsAssets) ==
    LET idx == SearchInsertionPoint(gpsAssets, tgt) IN
    IF idx = 1 \/ idx > Len(gpsAssets) THEN NoInference
    ELSE LET before == gpsAssets[idx - 1]
             after == gpsAssets[idx]
             totalDuration == after.LocalDateTime - before.LocalDateTime
             targetOffset == tgt.LocalDateTime - before.LocalDateTime
             timeDiffBefore == tgt.LocalDateTime - before.LocalDateTime
             timeDiffAfter == after.LocalDateTime - tgt.LocalDateTime
             confidence == InterpolatedConfidence(Max(timeDiffBefore, timeDiffAfter))
         IN IF totalDuration = 0 THEN NoInference
            ELSE IF confidence < MinimumConfidenceThreshold THEN NoInference
            ELSE [ AssetID    |-> tgt.ID,
                   Latitude   |-> before.Latitude
                                    + ((after.Latitude - before.Latitude) * targetOffset)
                                         \div totalDuration,
                   Longitude  |-> before.Longitude
                                    + ((after.Longitude - before.Longitude) * targetOffset)
                                         \div totalDuration,
                   Confidence |-> confidence,
                   Source     |-> "interpolated" ]

\* "Only accept if confidence is reasonable"
NearbyAccepted(confidence) == confidence > MinimumConfidenceThreshold

inferSingleLocation(asset, gps) ==
    LET nearest == findNearestInTime(asset, gps)
        timeDiff == Abs(asset.LocalDateTime - gps[nearest].LocalDateTime)
        confidence == calculateTimeBasedConfidence(timeDiff)
    IN IF nearest # 0 /\ NearbyAccepted(confidence)
       THEN [ AssetID    |-> asset.ID,
              Latitude   |-> gps[nearest].Latitude,
              Longitude  |-> gps[nearest].Longitude,
              Confidence |-> confidence,
              Source     |-> "nearby" ]
       ELSE interpolateLocation(asset, gps)

\* capture times tried (hours) and coordinates (hundredths of a degree)
HourPoints == {0, 5, 10, 400, 800}

GpsDomain ==
    { [LocalDateTime |-> h, Latitude |-> c, Longitude |-> c] :
         h \in HourPoints, c \in {1000, 1010} }

MakeGpsAsset(k, d) ==
    [ ID |-> k, LocalDateTime |-> d.LocalDateTime,
      Latitude |-> d.Latitude, Longitude |-> d.Longitude ]

\* InferLocations calls inferSingleLocation only with a non-empty GPS list
InferInit ==
    /\ \E n \in 1..MaxGps :
          \E f \in [1..n -> GpsDomain] :
             /\ SortedByLocalDateTime(f)
             /\ photographerGPS = [k \in 1..n |-> MakeGpsAsset(k, f[k])]
    /\ target \in [ID : {MaxGps + 1}, LocalDateTime : HourPoints]
    /\ ipc = "call"
    /\ inference = NoInference
    /\ nearestIdx = 0

InferIdle ==
    /\ photographerGPS = <<>>
    /\ target = [ID |-> 0, LocalDateTime |-> 0]
    /\ ipc = "idle"
    /\ inference = NoInference
    /\ nearestIdx = 0

\* inferSingleLocation returns an inference
InferEmit ==
    /\ ipc = "call"
    /\ inferSingleLocation(target, photographerGPS) # NoInference
    /\ inference' = inferSingleLocation(target, photographerGPS)
    /\ nearestIdx' = findNearestInTime(target, photographerGPS)
    /\ ipc' = "returned"
    /\ UNCHANGED <<photographerGPS, target>>
    /\ UNCHANGED nonInferVars

\* inferSingleLocation returns nil
InferNothing ==
    /\ ipc = "call"
    /\ inferSingleLocation(target, photographerGPS) = NoInference
    /\ inference' = NoInference
    /\ nearestIdx' = findNearestInTime(target, photographerGPS)
    /\ ipc' = "returned"
    /\ UNCHANGED <<photographerGPS, target>>
    /\ UNCHANGED nonInferVars

\* interpolateLocation applied to the target and the series on its own
InterpolateCall ==
    /\ ipc = "call"
    /\ inference' = interpolateLocation(target, photographerGPS)
    /\ nearestIdx' = 0
    /\ ipc' = "interpolated"
    /\ UNCHANGED <<photographerGPS, target>>
    /\ UNCHANGED nonInferVars

InferNext ==
    \/ InferEmit
    \/ InferNothing
    \/ InterpolateCall

\* ------------------------------------------------------------------------
\* Properties of inferSingleLocation
\* ------------------------------------------------------------------------
\* C10: with GPS photos at T+0h (10, 10) and T+10h (10.1, 10.1) and a
\* GPS-absent photo at T+5h, the inference emitted for that photo has source
\* interpolated, coordinates (10.05, 10.05) and confidence 0.81.
C10_InterpolationScenario ==
    ( /\ ipc = "returned"
      /\ Len(photographerGPS) = 2
      /\ photographerGPS[1].LocalDateTime = 0
      /\ photographerGPS[1].Latitude = 1000 /\ photographerGPS[1].Longitude = 1000
      /\ photographerGPS[2].LocalDateTime = 10
      /\ photographerGPS[2].Latitude = 1010 /\ photographerGPS[2].Longitude = 1010
      /\ target.LocalDateTime = 5 )
    => ( /\ inference.Source = "interpolated"
         /\ inference.Latitude = 1005 /\ inference.Longitude = 1005
         /\ inference.Confidence = 810 )


TimeDiff(k) == Abs(target.LocalDateTime - photographerGPS[k].LocalDateTime)

\* C11: the candidate findNearestInTime returns for a non-empty time-sorted
\* list minimises the absolute time difference to the target over all
\* candidates, and when the neighbours before and after the insertion point
\* are equally close it is the earlier one.
C11_NearestMinimisesTimeDiff ==
    ipc = "returned"
    => /\ nearestIdx \in 1..Len(photographerGPS)
       /\ \A k \in 1..Len(photographerGPS) : TimeDiff(nearestIdx) <= TimeDiff(k)
       /\ \A k \in 2..Len(photographerGPS) :
             ( /\ photographerGPS[k - 1].LocalDateTime < target.LocalDateTime
               /\ photographerGPS[k].LocalDateTime >= target.LocalDateTime
               /\ TimeDiff(k - 1) = TimeDiff(k) )
             => nearestIdx = k - 1

\* a tie between the two neighbours, resolved
C11_Witness ==
    /\ ipc = "returned"
    /\ nearestIdx \in 1..(Len(photographerGPS) - 1)
    /\ photographerGPS[nearestIdx].LocalDateTime < target.LocalDateTime
    /\ photographerGPS[nearestIdx + 1].LocalDateTime > target.LocalDateTime
    /\ TimeDiff(nearestIdx) = TimeDiff(nearestIdx + 1)

DecayInit ==
    /\ hoursDiff \in [1..2 -> 0..MaxGapHours]
    /\ decayed = <<>>

DecayIdle ==
    /\ hoursDiff = <<>>
    /\ decayed = <<>>

ComputeConfidence ==
    /\ hoursDiff # <<>>
    /\ decayed = <<>>
    /\ decayed' = [ k \in 1..2 |->
                      [ Time         |-> calculateTimeBasedConfidence(hoursDiff[k]),
                        Interpolated |-> InterpolatedConfidence(hoursDiff[k]) ] ]
    /\ UNCHANGED hoursDiff
    /\ UNCHANGED nonDecayVars

DecayNext == ComputeConfidence

\* the table of the decay: <<upper limit in hours, confidence in thousandths>>
DecayTable ==
    << <<1, 1000>>, <<6, 900>>, <<24, 700>>, <<72, 500>>, <<168, 300>>, <<336, 150>> >>

TableConfidence(g) ==
    IF \E r \in 1..Len(DecayTable) : g < DecayTable[r][1]
    THEN DecayTable[CHOOSE r \in 1..Len(DecayTable) :
                       /\ g < DecayTable[r][1]
                       /\ \A q \in 1..(r - 1) : g >= DecayTable[q][1]][2]
    ELSE 100

GroupMakeModel == <<"apple", "iphone">>

\* deviceCounterRanges of a process that has not run identifySubDevices
EmptyCounterRanges == [ d \in {} |-> [min |-> 0, max |-> 0] ]

GroupSize == Len(withCounters) + uncounted

RECURSIVE Repeat(_, _)
Repeat(x, n) == IF n = 0 THEN <<>> ELSE <<x>> \o Repeat(x, n - 1)

\* as shouldSplit, without the absolute threshold
shouldSplitRelativeOnly(gap, current) ==
    LET clusterRange == current.maxCounter - current.minCounter
        typicalIncrement == clusterRange \div Max(current.size, 1)
    IN typicalIncrement = 0 \/ gap > typicalIncrement * RelativeGapFactor

\* shouldSplit, with typicalIncrement := clusterRange / max(size, 1) in
\* integer division
shouldSplit(gap, current) ==
    LET clusterRange == current.maxCounter - current.minCounter
        typicalIncrement == clusterRange \div Max(current.size, 1)
    IN /\ gap > AbsoluteGapThreshold
       /\ (typicalIncrement = 0 \/ gap > typicalIncrement * RelativeGapFactor)

NewCluster(counter) == [ minCounter |-> counter, maxCounter |-> counter, size |-> 1 ]

significantClusters(cs) == SelectSeq(cs, LAMBDA c : c.size >= MinClusterSize)

OneDevice == << [ ID |-> GroupMakeModel, PhotoCount |-> GroupSize ] >>

SubDeviceID(n, k) == IF n > 1 THEN GroupMakeModel \o <<k>> ELSE GroupMakeModel

\* as DevicesOf, the ordinals counted from the last cluster
DevicesOfDescending(sig) ==
    [ k \in 1..Len(sig) |->
        [ ID |-> SubDeviceID(Len(sig), Len(sig) + 1 - k), PhotoCount |-> sig[k].size ] ]

\* the device entries of the significant clusters
DevicesOf(sig) ==
    [ k \in 1..Len(sig) |->
        [ ID |-> SubDeviceID(Len(sig), k), PhotoCount |-> sig[k].size ] ]

\* deviceCounterRanges after the writes for the significant clusters
RangesAfter(ranges, sig) ==
    [ d \in DOMAIN ranges \cup {DevicesOf(sig)[k].ID : k \in 1..Len(sig)} |->
        IF \E k \in 1..Len(sig) : DevicesOf(sig)[k].ID = d
        THEN LET k == CHOOSE n \in 1..Len(sig) : DevicesOf(sig)[n].ID = d
             IN [ min |-> sig[k].minCounter, max |-> sig[k].maxCounter ]
        ELSE ranges[d] ]

\* counter values tried in the groups of up to MaxGroupSize assets
CounterValues == <<1, 510, 1520, 50000>>

SortedCounters(counts) ==
    Repeat(CounterValues[1], counts[1]) \o Repeat(CounterValues[2], counts[2])
      \o Repeat(CounterValues[3], counts[3]) \o Repeat(CounterValues[4], counts[4])

\* groups of 200 assets, 100 with counters in 1..500 and 100 in 50000..50500
TwoRangeGroups ==
    { Repeat(1, a) \o Repeat(500, 100 - a) \o Repeat(50000, b) \o Repeat(50500, 100 - b) :
        a \in {0, 1, 99, 100}, b \in {0, 50, 100} }

DeviceInit ==
    /\ \/ \E n \in (MinAssetsToSplit - 1)..MaxGroupSize :
             \E c1 \in 0..n : \E c2 \in 0..(n - c1) : \E c3 \in 0..(n - c1 - c2) :
             \E c4 \in 0..(n - c1 - c2 - c3) :
                /\ withCounters = SortedCounters(<<c1, c2, c3, c4>>)
                /\ uncounted = n - c1 - c2 - c3 - c4
       \/ /\ withCounters \in TwoRangeGroups
          /\ uncounted = 0
    /\ dvpc = "start"
    /\ scanIdx = 0
    /\ clusters = <<>>
    /\ discovered = <<>>
    /\ deviceCounterRanges = EmptyCounterRanges

DeviceIdle ==
    /\ withCounters = <<>>
    /\ uncounted = 0
    /\ dvpc = "idle"
    /\ scanIdx = 0
    /\ clusters = <<>>
    /\ discovered = <<>>
    /\ deviceCounterRanges = EmptyCounterRanges

\* len(assets) < 20
ReturnFewAssets ==
    /\ dvpc = "start"
    /\ GroupSize < MinAssetsToSplit
    /\ discovered' = OneDevice
    /\ dvpc' = "done"
    /\ UNCHANGED <<withCounters, uncounted, scanIdx, clusters, deviceCounterRanges>>
    /\ UNCHANGED nonDeviceVars

\* len(withCounters) < 10
ReturnFewCounters ==
    /\ dvpc = "start"
    /\ GroupSize >= MinAssetsToSplit
    /\ Len(withCounters) < MinCounterSamples
    /\ discovered' = OneDevice
    /\ dvpc' = "done"
    /\ UNCHANGED <<withCounters, uncounted, scanIdx, clusters, deviceCounterRanges>>
    /\ UNCHANGED nonDeviceVars

BeginScan ==
    /\ dvpc = "start"
    /\ GroupSize >= MinAssetsToSplit
    /\ Len(withCounters) >= MinCounterSamples
    /\ clusters' = << NewCluster(withCounters[1]) >>
    /\ scanIdx' = 2
    /\ dvpc' = "scan"
    /\ UNCHANGED <<withCounters, uncounted, discovered, deviceCounterRanges>>
    /\ UNCHANGED nonDeviceVars

ScanGap == withCounters[scanIdx] - withCounters[scanIdx - 1]

ScanSplit ==
    /\ dvpc = "scan"
    /\ scanIdx <= Len(withCounters)
    /\ shouldSplit(ScanGap, Last(clusters))
    /\ clusters' = Append(clusters, NewCluster(withCounters[scanIdx]))
    /\ scanIdx' = scanIdx + 1
    /\ UNCHANGED <<withCounters, uncounted, dvpc, discovered, deviceCounterRanges>>
    /\ UNCHANGED nonDeviceVars

ScanExtend ==
    /\ dvpc = "scan"
    /\ scanIdx <= Len(withCounters)
    /\ ~shouldSplit(ScanGap, Last(clusters))
    /\ clusters' = [ clusters EXCEPT
                       ![Len(clusters)].maxCounter = withCounters[scanIdx],
                       ![Len(clusters)].size = @ + 1 ]
    /\ scanIdx' = scanIdx + 1
    /\ UNCHANGED <<withCounters, uncounted, dvpc, discovered, deviceCounterRanges>>
    /\ UNCHANGED nonDeviceVars

\* len(significantClusters) == 0
ReturnNoSignificant ==
    /\ dvpc = "scan"
    /\ scanIdx > Len(withCounters)
    /\ Len(significantClusters(clusters)) = 0
    /\ discovered' = OneDevice
    /\ dvpc' = "done"
    /\ UNCHANGED <<withCounters, uncounted, scanIdx, clusters, deviceCounterRanges>>
    /\ UNCHANGED nonDeviceVars

ReturnDevices ==
    /\ dvpc = "scan"
    /\ scanIdx > Len(withCounters)
    /\ Len(significantClusters(clusters)) > 0
    /\ discovered' = DevicesOf(significantClusters(clusters))
    /\ deviceCounterRanges' = RangesAfter(deviceCounterRanges, significantClusters(clusters))
    /\ dvpc' = "done"
    /\ UNCHANGED <<withCounters, uncounted, scanIdx, clusters>>
    /\ UNCHANGED nonDeviceVars

DeviceNext ==
    \/ ReturnFewAssets
    \/ ReturnFewCounters
    \/ BeginScan
    \/ ScanSplit
    \/ ScanExtend
    \/ ReturnNoSignificant
    \/ ReturnDevices

\* the clusters of the whole scan, from place k on
RECURSIVE ScanFrom(_, _, _)
ScanFrom(counters, k, cs) ==
    IF k > Len(counters) THEN cs
    ELSE ScanFrom(counters, k + 1,
                  IF shouldSplit(counters[k] - counters[k - 1], Last(cs))
                  THEN Append(cs, NewCluster(counters[k]))
                  ELSE [ cs EXCEPT ![Len(cs)].maxCounter = counters[k],
                                   ![Len(cs)].size = @ + 1 ])

\* the significant clusters identifySubDevices reaches for the group, <<>>
\* when it returns the base device before or after the scan
SignificantOf(counters, without) ==
    IF Len(counters) + without < MinAssetsToSplit \/ Len(counters) < MinCounterSamples
    THEN <<>>
    ELSE significantClusters(ScanFrom(counters, 2, << NewCluster(counters[1]) >>))

\* ------------------------------------------------------------------------
\* Properties of identifySubDevices
\* ------------------------------------------------------------------------
TwoSeparatedRanges ==
    /\ Len(withCounters) = 200
    /\ uncounted = 0
    /\ \A k \in 1..100 : withCounters[k] >= 1 /\ withCounters[k] <= 500
    /\ \A k \in 101..200 : withCounters[k] >= 50000 /\ withCounters[k] <= 50500

NoGapOver1000 ==
    \A k \in 2..Len(withCounters) : withCounters[k] - withCounters[k - 1] <= 1000

\* C14: a group of 200 records with 100 counters in 1..500 and 100 in
\* 50000..50500 yields exactly two devices, and a group whose sorted counters
\* have no consecutive gap over 1000 yields exactly one device.
C14_TwoRangesTwoDevices ==
    dvpc = "done"
    => /\ TwoSeparatedRanges => Len(discovered) = 2
       /\ NoGapOver1000 => Len(discovered) = 1

C14_Witness ==
    /\ dvpc = "done"
    /\ TwoSeparatedRanges
    /\ Len(discovered) = 2
    /\ discovered[1].PhotoCount = 100

\* the rule as stated: the mean increment is the range over the number of
\* counters in the cluster, an exact quotient
StatedGapRule(gap, current) ==
    LET clusterRange == current.maxCounter - current.minCounter IN
    /\ gap > 1000
    /\ (clusterRange = 0 \/ gap * current.size > 20 * clusterRange)

\* C15: in every step of the scan a new cluster starts if and only if the gap
\* is over 1000 and the cluster's range is zero or the gap is over 20 times
\* the cluster's mean increment.
C15_GapRule ==
    [][ (dvpc = "scan" /\ scanIdx' = scanIdx + 1)
        => ( Len(clusters') = Len(clusters) + 1
             <=> StatedGapRule(ScanGap, Last(clusters)) ) ]_vars

OrdinalOf(id) == id[3]

\* C18: the (id, counter range) pairs are those fixed by the group's counters
\* alone, and in a split group the ordinals are 1..n with the range of
\* ordinal k entirely below the range of ordinal k + 1.
C18_StableOrdinalIds ==
    (dvpc = "done" /\ Len(significantClusters(clusters)) > 0)
    => LET sig == SignificantOf(withCounters, uncounted)
           ids == {discovered[k].ID : k \in 1..Len(discovered)}
       IN /\ Len(discovered) = Len(sig)
          /\ DOMAIN deviceCounterRanges = ids
          /\ \A k \in 1..Len(sig) :
                /\ discovered[k].ID \in ids
                /\ deviceCounterRanges[discovered[k].ID] =
                      [min |-> sig[k].minCounter, max |-> sig[k].maxCounter]
          /\ Len(discovered) > 1
               => /\ \A d \in ids : Len(d) = 3 /\ SubSeq(d, 1, 2) = GroupMakeModel
                  /\ {OrdinalOf(d) : d \in ids} = 1..Len(discovered)
                  /\ \A d, o \in ids :
                        OrdinalOf(o) = OrdinalOf(d) + 1
                        => deviceCounterRanges[d].max < deviceCounterRanges[o].min
          /\ Len(discovered) = 1 => ids = {GroupMakeModel}

\* a group split in three
C18_Witness ==
    /\ dvpc = "done"
    /\ Len(discovered) = 3
    /\ deviceCounterRanges[GroupMakeModel \o <<1>>].max
         < deviceCounterRanges[GroupMakeModel \o <<2>>].min

\* C19: a group that yields exactly one device gives it a photo count equal
\* to the number of records in the group.
C19_OneDeviceCountsWholeGroup ==
    (dvpc = "done" /\ Len(discovered) = 1)
    => discovered[1].PhotoCount = GroupSize

\* ------------------------------------------------------------------------
\* The commands infer-locations and detect-sessions
\* ------------------------------------------------------------------------
\* Device ids: <<make, model>> is the id "make-model" of already lower-case,
\* trimmed strings, <<make, model, k>> the sub-device id "make-model-device<k>",
\* and <<>> the empty id.  Positions are points on a line: Latitude and
\* Longitude carry the same value.
UnknownDevice == <<"unknown">>

NoDevice == <<>>

makeDeviceID(make, model) ==
    IF make = "" /\ model = "" THEN UnknownDevice ELSE <<make, model>>

\* the ids with the prefix baseDeviceID + "-device"
SubDevicesOf(baseDeviceID, devices) ==
    { d \in DOMAIN devices : Len(d) = 3 /\ SubSeq(d, 1, 2) = baseDeviceID }

\* counter >= min - tolerance && counter <= max + tolerance, tolerance a
\* quarter of the range
WithinTolerance(counter, counterRange) ==
    LET tolerance == (counterRange.max - counterRange.min) \div 4 IN
    /\ counter >= counterRange.min - tolerance
    /\ counter <= counterRange.max + tolerance

\* The ids a call of findMatchingDeviceMap can return: each loop over the
\* map returns the first id it visits that passes its test, and the order of
\* the visit is not fixed.
findMatchingDeviceMap(asset, devices, ranges) ==
    LET baseDeviceID == makeDeviceID(asset.Make, asset.Model)
        subDevices == SubDevicesOf(baseDeviceID, devices)
        inRange == { d \in subDevices :
                       d \in DOMAIN ranges /\ WithinTolerance(asset.Counter, ranges[d]) }
    IN IF baseDeviceID \in DOMAIN devices THEN {baseDeviceID}
       ELSE IF asset.HasCounter /\ inRange # {} THEN inRange
       ELSE IF subDevices # {} THEN subDevices
       ELSE {NoDevice}

\* the ways one stage run can resolve its assets, one call per asset
Resolutions(allAssets, devices, ranges) ==
    { r \in [ {allAssets[k].ID : k \in 1..Len(allAssets)} -> DOMAIN devices \cup {NoDevice} ] :
        \A k \in 1..Len(allAssets) :
           r[allAssets[k].ID] \in findMatchingDeviceMap(allAssets[k], devices, ranges) }

\* the photographer an asset is grouped under, "" when it is skipped
labeledPhotographer(asset, devices, resolve) ==
    IF asset.Make = "" /\ asset.Model = "" THEN ""
    ELSE LET deviceID == resolve[asset.ID] IN
         IF deviceID # NoDevice /\ deviceID \in DOMAIN devices
         THEN devices[deviceID]
         ELSE ""

\* GetAssets scans the inferred columns into locals and drops them
GetAssets(rows) ==
    [ k \in 1..Len(rows) |->
        [ ID            |-> rows[k].ID,
          LocalDateTime |-> rows[k].LocalDateTime,
          Make          |-> rows[k].Make,
          Model         |-> rows[k].Model,
          HasCounter    |-> rows[k].HasCounter,
          Counter       |-> rows[k].Counter,
          HasGPS        |-> rows[k].HasGPS,
          Latitude      |-> rows[k].Latitude,
          Longitude     |-> rows[k].Longitude ] ]

\* as gpsForPhotographer, the GPS assets of every photographer
gpsOfAnyPhotographer(allAssets, devices, resolve, photographer) ==
    SelectSeq(allAssets,
              LAMBDA a : a.HasGPS /\ labeledPhotographer(a, devices, resolve) # "")

\* the photographer's GPS assets, in time order
gpsForPhotographer(allAssets, devices, resolve, photographer) ==
    SelectSeq(allAssets,
              LAMBDA a : a.HasGPS /\ labeledPhotographer(a, devices, resolve) = photographer)

\* the list of inferences, in the order of the assets without GPS
InferLocations(allAssets, devices, resolve) ==
    LET gpsOf(a) ==
            gpsForPhotographer(allAssets, devices, resolve,
                               labeledPhotographer(a, devices, resolve))
        emitting ==
            SelectSeq(allAssets,
                      LAMBDA a : /\ ~a.HasGPS
                                 /\ labeledPhotographer(a, devices, resolve) # ""
                                 /\ Len(gpsOf(a)) > 0
                                 /\ inferSingleLocation(a, gpsOf(a)) # NoInference)
    IN [ k \in 1..Len(emitting) |-> inferSingleLocation(emitting[k], gpsOf(emitting[k])) ]

\* one UPDATE assets SET inferred_* WHERE id
UpdateInferred(rows, inf) ==
    [ k \in 1..Len(rows) |->
        IF rows[k].ID = inf.AssetID
        THEN [ rows[k] EXCEPT
                 !.InferredLatitude = inf.Latitude,
                 !.InferredLongitude = inf.Longitude,
                 !.LocationConfidence = inf.Confidence,
                 !.LocationSource = inf.Source ]
        ELSE rows[k] ]

\* the updates of storeInferences from the n-th inference on
RECURSIVE StoreFrom(_, _, _, _)
StoreFrom(rows, infs, n, minConfidence) ==
    IF n > Len(infs) THEN rows
    ELSE StoreFrom(IF infs[n].Confidence < minConfidence
                   THEN rows
                   ELSE UpdateInferred(rows, infs[n]),
                   infs, n + 1, minConfidence)

storeInferences(rows, infs, minConfidence) == StoreFrom(rows, infs, 1, minConfidence)

GetEffectiveLocation(asset, inferenceMap) ==
    IF asset.HasGPS
    THEN [ Latitude |-> asset.Latitude, Longitude |-> asset.Longitude,
           HasLocation |-> TRUE, Confidence |-> 1000 ]
    ELSE IF asset.ID \in DOMAIN inferenceMap
    THEN [ Latitude |-> inferenceMap[asset.ID].Latitude,
           Longitude |-> inferenceMap[asset.ID].Longitude,
           HasLocation |-> TRUE,
           Confidence |-> inferenceMap[asset.ID].Confidence ]
    ELSE [ Latitude |-> 0, Longitude |-> 0, HasLocation |-> FALSE, Confidence |-> 0 ]

\* the list `located` of DetectSessions
LocatedAssets(allAssets, inferenceMap, ps) ==
    LET withLocation ==
            [ k \in 1..Len(allAssets) |->
                LET e == GetEffectiveLocation(allAssets[k], inferenceMap) IN
                [ ID            |-> allAssets[k].ID,
                  LocalDateTime |-> allAssets[k].LocalDateTime,
                  Make          |-> allAssets[k].Make,
                  Model         |-> allAssets[k].Model,
                  HasCounter    |-> allAssets[k].HasCounter,
                  Counter       |-> allAssets[k].Counter,
                  Pos           |-> e.Latitude,
                  Confidence    |-> e.Confidence,
                  HasLocation   |-> e.HasLocation ] ]
    IN SelectSeq(withLocation,
                 LAMBDA a : a.HasLocation /\ a.Confidence >= ps.MinConfidence)

\* the map photographerAssets of DetectSessions
photographerAssets(located, devices, resolve) ==
    [ p \in {labeledPhotographer(located[k], devices, resolve) : k \in 1..Len(located)} \ {""} |->
        SelectSeq(located, LAMBDA a : labeledPhotographer(a, devices, resolve) = p) ]

\* the orders in which a range over the map can visit its keys
MapOrders(m) ==
    { f \in [1..Cardinality(DOMAIN m) -> DOMAIN m] :
        \A a, b \in 1..Cardinality(DOMAIN m) : a # b => f[a] # f[b] }

RECURSIVE AllSessions(_, _, _, _)
AllSessions(order, k, byPhotographer, ps) ==
    IF k > Len(order) THEN <<>>
    ELSE clusterAssetsIntoSessions(byPhotographer[order[k]], order[k], ps)
           \o AllSessions(order, k + 1, byPhotographer, ps)

\* the sessions DetectSessions returns when the map is visited in `order`
DetectSessions(allAssets, inferenceMap, devices, resolve, ps, order) ==
    AllSessions(order, 1,
                photographerAssets(LocatedAssets(allAssets, inferenceMap, ps), devices, resolve),
                ps)

\* the assets handed to clusterAssetsIntoSessions, with the position used
ClusteredAssets(allAssets, inferenceMap, devices, resolve, ps) ==
    LET located == LocatedAssets(allAssets, inferenceMap, ps) IN
    { [ID |-> located[k].ID, Pos |-> located[k].Pos] :
        k \in {n \in 1..Len(located) :
                 labeledPhotographer(located[n], devices, resolve) # ""} }

\* runSessions builds the map with make() and never fills it
EmptyInferenceMap == [ id \in {} |-> NoInference ]

\* the devices tables tried: apple-iphone whole or split in two, with the
\* photographer labels
DeviceTableInputs ==
    { (<<"canon", "eos">> :> "")  @@ (<<"apple", "iphone">> :> ""),
      (<<"canon", "eos">> :> "A") @@ (<<"apple", "iphone">> :> ""),
      (<<"canon", "eos">> :> "A") @@ (<<"apple", "iphone">> :> "B"),
      (<<"canon", "eos">> :> "A") @@ (<<"apple", "iphone", 1>> :> "A")
                                  @@ (<<"apple", "iphone", 2>> :> "B"),
      (<<"canon", "eos">> :> "")  @@ (<<"apple", "iphone", 1>> :> "B")
                                  @@ (<<"apple", "iphone", 2>> :> "") }

RowDomain ==
    { [ Make |-> d[1], Model |-> d[2], HasGPS |-> g ] :
        d \in { <<"", "">>, <<"canon", "eos">>, <<"apple", "iphone">> },
        g \in BOOLEAN }
    \ { [ Make |-> "", Model |-> "", HasGPS |-> TRUE ] }

\* row k has the file name IMG_<k>, was taken at hour k - 1 and, with GPS,
\* lies at 4k on the line
MakeRow(k, d) ==
    [ ID |-> k, LocalDateTime |-> k - 1, Make |-> d.Make, Model |-> d.Model,
      HasCounter |-> TRUE, Counter |-> k,
      HasGPS |-> d.HasGPS,
      Latitude |-> IF d.HasGPS THEN 4 * k ELSE 0,
      Longitude |-> IF d.HasGPS THEN 4 * k ELSE 0,
      InferredLatitude |-> 0, InferredLongitude |-> 0,
      LocationConfidence |-> 0, LocationSource |-> "" ]

SessionParamsInputs ==
    [ MaxTimeGapHours : {1}, MaxDistanceKM : {5}, MinPhotosInSession : {1, 2},
      MinConfidence : {SessionMinConfidence} ]

NoResolution == [ id \in {} |-> NoDevice ]

PipelineInit ==
    /\ \E n \in 1..MaxRows :
          \E f \in [1..n -> RowDomain] :
             dbAssets = [k \in 1..n |-> MakeRow(k, f[k])]
    /\ dbDevices \in DeviceTableInputs
    /\ dbSessions = <<>>
    /\ clustered = {}
    /\ inferences = <<>>
    /\ resolved = NoResolution
    /\ minConfidenceUsed = 0
    /\ completed = {}
    /\ lastCommand = "none"

PipelineIdle ==
    /\ dbAssets = <<>>
    /\ dbDevices = [d \in {} |-> ""]
    /\ dbSessions = <<>>
    /\ clustered = {}
    /\ inferences = <<>>
    /\ resolved = NoResolution
    /\ minConfidenceUsed = 0
    /\ completed = {}
    /\ lastCommand = "idle"

\* infer-locations stops when no device is labeled
RunInferNoLabels ==
    /\ \A d \in DOMAIN dbDevices : dbDevices[d] = ""
    /\ lastCommand' = "infer-locations failed"
    /\ UNCHANGED <<dbAssets, dbDevices, dbSessions, clustered, inferences, resolved,
                   minConfidenceUsed, completed>>
    /\ UNCHANGED nonPipelineVars

RunInfer ==
    /\ \E d \in DOMAIN dbDevices : dbDevices[d] # ""
    /\ \E minConfidence \in {300, 950} :
       \E resolve \in Resolutions(GetAssets(dbAssets), dbDevices, EmptyCounterRanges) :
          /\ inferences' = InferLocations(GetAssets(dbAssets), dbDevices, resolve)
          /\ resolved' = resolve
          /\ minConfidenceUsed' = minConfidence
          /\ dbAssets' = storeInferences(dbAssets, inferences', minConfidence)
    /\ completed' = completed \cup {"infer-locations"}
    /\ lastCommand' = "infer-locations"
    /\ UNCHANGED <<dbDevices, dbSessions, clustered>>
    /\ UNCHANGED nonPipelineVars

\* detect-sessions without --merge
RunSessions ==
    /\ \E ps \in SessionParamsInputs :
       \E resolve \in Resolutions(GetAssets(dbAssets), dbDevices, EmptyCounterRanges) :
          LET allAssets == GetAssets(dbAssets)
              inferenceMap == EmptyInferenceMap
              located == LocatedAssets(allAssets, inferenceMap, ps)
          IN /\ \E order \in MapOrders(photographerAssets(located, dbDevices, resolve)) :
                   dbSessions' = DetectSessions(allAssets, inferenceMap, dbDevices,
                                                resolve, ps, order)
             /\ clustered' = ClusteredAssets(allAssets, inferenceMap, dbDevices, resolve, ps)
    /\ completed' = completed \cup {"detect-sessions"}
    /\ lastCommand' = "detect-sessions"
    /\ UNCHANGED <<dbAssets, dbDevices, inferences, resolved, minConfidenceUsed>>
    /\ UNCHANGED nonPipelineVars

PipelineNext ==
    \/ RunInferNoLabels
    \/ RunInfer
    \/ RunSessions

\* ------------------------------------------------------------------------
\* findMatchingDeviceMap in a stage run after discover
\* ------------------------------------------------------------------------
\* Every command is a process of its own: the stage reads the devices from
\* the store and starts with an empty deviceCounterRanges, which only
\* identifySubDevices fills.

\* groups of 20 to 30 apple-iphone assets, all with counters, that discover
\* has analysed
\* a group of 20 assets: 14 with counter 1 and 6 with counters 1002, 2002,
\* .., 6002
SteppedGroup == Repeat(1, 14) \o [ k \in 1..6 |-> 2 + 1000 * k ]

DiscoveredGroups ==
    { SortedCounters(<<c1, c2, c3, c4>>) :
         c1 \in {0, 5, 10}, c2 \in {0, 10}, c3 \in {0, 5}, c4 \in {0, 10} }
      \cup {SteppedGroup}

PhotoInputs ==
    { [ ID |-> 1, Make |-> "apple", Model |-> "iphone",
        HasCounter |-> h[1], Counter |-> h[2] ] :
        h \in { <<FALSE, 0>>, <<TRUE, 1>>, <<TRUE, 600>>, <<TRUE, 1520>>, <<TRUE, 50000>> } }

MatchInit ==
    /\ \E g \in DiscoveredGroups :
          /\ Len(g) >= MinAssetsToSplit
          /\ discoverRanges = RangesAfter(EmptyCounterRanges, SignificantOf(g, 0))
    /\ storedDevices = [ d \in DOMAIN discoverRanges |-> "" ]
    /\ photo \in PhotoInputs
    /\ matchResults = <<>>
    /\ sameProcessResults = <<>>

MatchIdle ==
    /\ discoverRanges = EmptyCounterRanges
    /\ storedDevices = [ d \in {} |-> "" ]
    /\ photo = [ ID |-> 0, Make |-> "", Model |-> "", HasCounter |-> FALSE, Counter |-> 0 ]
    /\ matchResults = <<>>
    /\ sameProcessResults = <<>>

\* one call of findMatchingDeviceMap in the stage's process
MatchPhoto ==
    /\ DOMAIN storedDevices # {}
    /\ Len(matchResults) < MaxCalls
    /\ \E d \in findMatchingDeviceMap(photo, storedDevices, EmptyCounterRanges) :
          matchResults' = Append(matchResults, d)
    /\ UNCHANGED <<discoverRanges, storedDevices, photo, sameProcessResults>>
    /\ UNCHANGED nonMatchVars

\* one call of findMatchingDeviceMap in the process that ran DiscoverDevices:
\* deviceCounterRanges holds what identifySubDevices recorded
MatchPhotoAfterDiscover ==
    /\ DOMAIN storedDevices # {}
    /\ Len(sameProcessResults) < MaxCalls
    /\ \E d \in findMatchingDeviceMap(photo, storedDevices, discoverRanges) :
          sameProcessResults' = Append(sameProcessResults, d)
    /\ UNCHANGED <<discoverRanges, storedDevices, photo, matchResults>>
    /\ UNCHANGED nonMatchVars

MatchNext ==
    \/ MatchPhoto
    \/ MatchPhotoAfterDiscover

\* ------------------------------------------------------------------------
\* Properties of findMatchingDeviceMap
\* ------------------------------------------------------------------------
\* the sub-devices whose tolerance window, from the ranges discover found,
\* holds the photo's counter
WindowsHolding ==
    { d \in DOMAIN discoverRanges :
        Len(d) = 3 /\ photo.HasCounter /\ WithinTolerance(photo.Counter, discoverRanges[d]) }

\* C16: after discover has split the make/model, a later stage resolves a
\* photo whose counter lies in the tolerance window of exactly one sub-device
\* to that sub-device.
C16_MatchedToOwnSubDevice ==
    \A n \in 1..Len(matchResults) :
       Cardinality(WindowsHolding) = 1 => matchResults[n] \in WindowsHolding

\* C29: the ids FindMatchingDevice can return for a photo and a device list
\* are the same in a process that has run DiscoverDevices as in one that has
\* not: the recorded counter ranges do not influence the match.
C29_MatchIgnoresEarlierDiscover ==
    Len(sameProcessResults) > 0 =>
        findMatchingDeviceMap(photo, storedDevices, discoverRanges)
            = findMatchingDeviceMap(photo, storedDevices, EmptyCounterRanges)

\* the sub-devices whose recorded range [min, max] holds the photo's counter
ExactRangesHolding ==
    { d \in DOMAIN discoverRanges :
        /\ Len(d) = 3 /\ photo.HasCounter
        /\ discoverRanges[d].min <= photo.Counter
        /\ photo.Counter <= discoverRanges[d].max }

\* C38: with the range table populated, a photo whose counter lies inside the
\* exact range [min, max] recorded for a sub-device is resolved to that
\* sub-device, also when the tolerance window of another sub-device of the
\* make/model covers the counter.
C38_ExactRangeWins ==
    \A n \in 1..Len(sameProcessResults) :
       \A d \in ExactRangesHolding : sameProcessResults[n] = d

\* C17: for a fixed photo, device set and counter-range table every call of
\* findMatchingDeviceMap returns the same device id.
C17_MatchDeterministic ==
    \A n, m \in 1..Len(matchResults) : matchResults[n] = matchResults[m]

\* ------------------------------------------------------------------------
\* Properties of the pipeline
\* ------------------------------------------------------------------------
\* every device the row can resolve to carries a photographer label
OfLabeledDevice(row) ==
    /\ ~(row.Make = "" /\ row.Model = "")
    /\ \A d \in findMatchingDeviceMap(row, dbDevices, EmptyCounterRanges) :
          d # NoDevice /\ dbDevices[d] # ""

\* C9: after a detect-sessions run that follows an infer-locations run, every
\* GPS-absent photo of a labeled device whose stored inference has confidence
\* at least the session min-confidence was clustered with its inferred
\* coordinates.
C9_InferredPhotosClustered ==
    ( lastCommand = "detect-sessions" /\ "infer-locations" \in completed )
    => \A k \in 1..Len(dbAssets) :
          ( /\ ~dbAssets[k].HasGPS
            /\ OfLabeledDevice(dbAssets[k])
            /\ dbAssets[k].LocationSource # ""
            /\ dbAssets[k].LocationConfidence >= SessionMinConfidence )
          => [ID |-> dbAssets[k].ID, Pos |-> dbAssets[k].InferredLatitude] \in clustered

RowOf(id) == dbAssets[CHOOSE k \in 1..Len(dbAssets) : dbAssets[k].ID = id]

ResolvedPhotographer(row) == labeledPhotographer(row, dbDevices, resolved)

\* the GPS rows the last run attributed to the photographer
GpsRowsOf(photographer) ==
    { k \in 1..Len(dbAssets) :
        dbAssets[k].HasGPS /\ ResolvedPhotographer(dbAssets[k]) = photographer }

Between(x, a, b) == (a <= x /\ x <= b) \/ (b <= x /\ x <= a)

\* C13: every inference InferLocations emitted is for a photo without GPS
\* that resolved to a device with a photographer label, no photo has two
\* inferences, and the coordinates are those of (nearby) or lie between
\* (interpolated) GPS photos attributed to that same photographer.
C13_InferencesFromOwnPhotographer ==
    lastCommand = "infer-locations"
    => /\ \A n \in 1..Len(inferences) :
             LET inf == inferences[n]
                 row == RowOf(inf.AssetID)
                 own == GpsRowsOf(ResolvedPhotographer(row))
             IN /\ \E k \in 1..Len(dbAssets) : dbAssets[k].ID = inf.AssetID
                /\ ~row.HasGPS
                /\ ResolvedPhotographer(row) # ""
                /\ inf.Source \in {"nearby", "interpolated"}
                /\ inf.Source = "nearby"
                      => \E g \in own : /\ inf.Latitude = dbAssets[g].Latitude
                                        /\ inf.Longitude = dbAssets[g].Longitude
                /\ inf.Source = "interpolated"
                      => \E g, h \in own :
                            /\ Between(inf.Latitude, dbAssets[g].Latitude, dbAssets[h].Latitude)
                            /\ Between(inf.Longitude, dbAssets[g].Longitude, dbAssets[h].Longitude)
       /\ \A n, m \in 1..Len(inferences) :
             inferences[n].AssetID = inferences[m].AssetID => n = m

\* an inference emitted for a photo of a split make/model
C13_Witness ==
    /\ lastCommand = "infer-locations"
    /\ Len(inferences) > 0
    /\ Len(resolved[inferences[1].AssetID]) = 3
\* the row carries an inferred location
HasStoredInference(row) == row.LocationSource # ""

\* C26: after an infer-locations run that completed, a photo has a stored
\* inferred location if and only if that run produced an inference for it
\* with confidence at least the run's min-confidence.
C26_InferencesReplaced ==
    lastCommand = "infer-locations" =>
        \A k \in 1..Len(dbAssets) :
            HasStoredInference(dbAssets[k]) <=>
                \E n \in 1..Len(inferences) :
                    /\ inferences[n].AssetID = dbAssets[k].ID
                    /\ inferences[n].Confidence >= minConfidenceUsed

\* ------------------------------------------------------------------------
\* MergeSessions (clustering.go)
\* ------------------------------------------------------------------------
\* Session centres are multiples of 12 km, so that the mean of up to four
\* centres is a whole number of kilometres.
MergeStartTimes == {0, 2, 4}
MergeShapes ==
    {[Center |-> 0, Radius |-> 0],
     [Center |-> 48, Radius |-> 0],
     [Center |-> 48, Radius |-> 30]}
MergeParamsInputs ==
    {[maxTimeGapHours |-> 2, maxDistanceKM |-> 10],
     [maxTimeGapHours |-> 2, maxDistanceKM |-> 50]}

\* the k-th session DetectSessions returned: one photo, taken at start, and
\* alternating photographers
InputSession(k, start, shape) ==
    [ StartTime    |-> start,
      EndTime      |-> start,
      AssetIDs     |-> <<k>>,
      Center       |-> shape.Center,
      Radius       |-> shape.Radius,
      Photographer |-> IF k % 2 = 1 THEN <<"A">> ELSE <<"B">> ]

\* all the ways to list the elements of a set (iteration order of a Go map)
Orderings(S) ==
    {f \in [1..Cardinality(S) -> S] : \A x \in S : \E k \in DOMAIN f : f[k] = x}

\* sort.Slice by StartTime: not stable, equal start times land in any order
SortSliceByStartTime(ss) ==
    {[k \in 1..Len(ss) |-> ss[f[k]]] : f \in
        {g \in Orderings(1..Len(ss)) :
            \A a, b \in 1..Len(ss) : a < b => ss[g[a]].StartTime <= ss[g[b]].StartTime}}

RECURSIVE SumCenters(_, _)
SumCenters(group, k) ==
    IF k = 0 THEN 0 ELSE SumCenters(group, k - 1) + group[k].Center

RECURSIVE MaxSpread(_, _, _)
MaxSpread(group, center, k) ==
    IF k = 0 THEN 0
    ELSE Max(MaxSpread(group, center, k - 1),
             CalculateDistance(center, group[k].Center) + group[k].Radius)

RECURSIVE JoinNames(_, _)
JoinNames(names, k) ==
    IF k = 0 THEN <<>> ELSE JoinNames(names, k - 1) \o names[k]

\* the sessions combineSessionGroup can return: the photo ids and the
\* photographers are read out of maps, in any order
combineSessionGroup(group) ==
    LET n == Len(group)
        ids == UNION {{group[k].AssetIDs[a] : a \in DOMAIN group[k].AssetIDs} : k \in 1..n}
        photographers == {group[k].Photographer : k \in 1..n}
        startTime == CHOOSE t \in {group[k].StartTime : k \in 1..n} :
                        \A k \in 1..n : t <= group[k].StartTime
        endTime == CHOOSE t \in {group[k].EndTime : k \in 1..n} :
                        \A k \in 1..n : t >= group[k].EndTime
        center == SumCenters(group, n) \div n
    IN  {[ StartTime    |-> startTime,
           EndTime      |-> endTime,
           AssetIDs     |-> allAssetIDs,
           Center       |-> center,
           Radius       |-> MaxSpread(group, center, n),
           Photographer |-> JoinNames(names, Len(names)) ] :
            allAssetIDs \in Orderings(ids), names \in Orderings(photographers)}

FinalizeGroupFirstOnly(group) == {group[1]}

\* a group of one is appended as it is, a larger one combined
FinalizeGroup(group) ==
    IF Len(group) = 1 THEN {group[1]} ELSE combineSessionGroup(group)

timeGapFromEarliest(group, candidate) == candidate.StartTime - group[1].EndTime

\* the first loop: some session of the group is near in time and in place
PairwiseMergeable(group, candidate, p) ==
    \E k \in 1..Len(group) :
        /\ candidate.StartTime - group[k].EndTime <= p.maxTimeGapHours
        /\ CalculateDistance(group[k].Center, candidate.Center) <= p.maxDistanceKM

\* the radius check on the group with the candidate added
WithinMergedRadius(group, candidate) ==
    LET all == Append(group, candidate)
        approxCenter == SumCenters(all, Len(all)) \div Len(all)
    IN  MaxSpread(all, approxCenter, Len(all)) <= maxMergedSessionRadius

canMergePairwiseOnly(group, candidate, p) ==
    PairwiseMergeable(group, candidate, p)

canMerge(group, candidate, p) ==
    /\ PairwiseMergeable(group, candidate, p)
    /\ WithinMergedRadius(group, candidate)

MergeInit ==
    /\ \E n \in 0..MaxMergeSessions :
         \E st \in [1..n -> MergeStartTimes], sh \in [1..n -> MergeShapes] :
            /\ \A a, b \in 1..n : a < b => st[a] <= st[b]
            /\ mergeInput = [k \in 1..n |-> InputSession(k, st[k], sh[k])]
    /\ mergeParams \in MergeParamsInputs
    /\ mpc = "start"
    /\ sortedSessions = <<>>
    /\ mi = 0
    /\ currentGroup = <<>>
    /\ merged = <<>>
    /\ tripPhotographers = <<>>

MergeIdle ==
    /\ mergeInput = <<>>
    /\ mergeParams = [maxTimeGapHours |-> 0, maxDistanceKM |-> 0]
    /\ mpc = "idle"
    /\ sortedSessions = <<>>
    /\ mi = 0
    /\ currentGroup = <<>>
    /\ merged = <<>>
    /\ tripPhotographers = <<>>

\* len(sessions) <= 1: the input is returned
MergeReturnInput ==
    /\ mpc = "start"
    /\ Len(mergeInput) <= 1
    /\ merged' = mergeInput
    /\ mpc' = "done"
    /\ UNCHANGED <<mergeInput, mergeParams, sortedSessions, mi, currentGroup, tripPhotographers>>
    /\ UNCHANGED nonMergeVars

\* the sort, and the first session opens the first group
MergeSort ==
    /\ mpc = "start"
    /\ Len(mergeInput) > 1
    /\ \E ss \in SortSliceByStartTime(mergeInput) :
         /\ sortedSessions' = ss
         /\ currentGroup' = <<ss[1]>>
    /\ mi' = 2
    /\ mpc' = "loop"
    /\ UNCHANGED <<mergeInput, mergeParams, merged, tripPhotographers>>
    /\ UNCHANGED nonMergeVars

\* the early termination
MergeEarlyExit ==
    /\ mpc = "loop"
    /\ mi <= Len(sortedSessions)
    /\ timeGapFromEarliest(currentGroup, sortedSessions[mi]) > mergeParams.maxTimeGapHours
    /\ \E mergedSession \in FinalizeGroup(currentGroup) :
         merged' = Append(merged, mergedSession)
    /\ currentGroup' = <<sortedSessions[mi]>>
    /\ mi' = mi + 1
    /\ UNCHANGED <<mergeInput, mergeParams, sortedSessions, mpc, tripPhotographers>>
    /\ UNCHANGED nonMergeVars

\* the candidate joins the current group
MergeAppend ==
    /\ mpc = "loop"
    /\ mi <= Len(sortedSessions)
    /\ timeGapFromEarliest(currentGroup, sortedSessions[mi]) <= mergeParams.maxTimeGapHours
    /\ canMerge(currentGroup, sortedSessions[mi], mergeParams)
    /\ currentGroup' = Append(currentGroup, sortedSessions[mi])
    /\ mi' = mi + 1
    /\ UNCHANGED <<mergeInput, mergeParams, sortedSessions, mpc, merged, tripPhotographers>>
    /\ UNCHANGED nonMergeVars

\* the candidate cannot merge: the group is finalized and a new one started
MergeNewGroup ==
    /\ mpc = "loop"
    /\ mi <= Len(sortedSessions)
    /\ timeGapFromEarliest(currentGroup, sortedSessions[mi]) <= mergeParams.maxTimeGapHours
    /\ ~canMerge(currentGroup, sortedSessions[mi], mergeParams)
    /\ \E mergedSession \in FinalizeGroup(currentGroup) :
         merged' = Append(merged, mergedSession)
    /\ currentGroup' = <<sortedSessions[mi]>>
    /\ mi' = mi + 1
    /\ UNCHANGED <<mergeInput, mergeParams, sortedSessions, mpc, tripPhotographers>>
    /\ UNCHANGED nonMergeVars

\* the last group, and the return
MergeReturn ==
    /\ mpc = "loop"
    /\ mi > Len(sortedSessions)
    /\ \E mergedSession \in FinalizeGroup(currentGroup) :
         merged' = Append(merged, mergedSession)
    /\ mpc' = "done"
    /\ UNCHANGED <<mergeInput, mergeParams, sortedSessions, mi, currentGroup, tripPhotographers>>
    /\ UNCHANGED nonMergeVars

NameRank(name) == IF name = "A" THEN 1 ELSE 2

\* order of two photographer strings under sort.Strings; the names are single
\* letters, so the order of the strings is that of the lists of names
StringLess(p, q) ==
    \E k \in 1..(Len(p) + 1) :
        /\ \A n \in 1..(k - 1) : n <= Len(q) /\ p[n] = q[n]
        /\ \/ k = Len(p) + 1 /\ k <= Len(q)
           \/ k <= Len(p) /\ k <= Len(q) /\ NameRank(p[k]) < NameRank(q[k])

\* Trip.Photographers of createTripFromSessions: the distinct Photographer
\* strings of the sessions, sorted and joined
TripPhotographers(ss) ==
    LET photographerSet == {ss[k].Photographer : k \in 1..Len(ss)}
        sorted == CHOOSE f \in Orderings(photographerSet) :
                     \A a, b \in DOMAIN f : a < b => StringLess(f[a], f[b])
    IN  JoinNames(sorted, Len(sorted))

\* detect-trips over the returned sessions, without home locations and with
\* a session gap no pair exceeds: they form one trip
MergeToTrip ==
    /\ mpc = "done"
    /\ Len(merged) > 0
    /\ tripPhotographers' = TripPhotographers(merged)
    /\ mpc' = "trip"
    /\ UNCHANGED <<mergeInput, mergeParams, sortedSessions, mi, currentGroup, merged>>
    /\ UNCHANGED nonMergeVars

MergeNext ==
    \/ MergeReturnInput
    \/ MergeSort
    \/ MergeEarlyExit
    \/ MergeAppend
    \/ MergeNewGroup
    \/ MergeReturn
    \/ MergeToTrip

\* ------------------------------------------------------------------------
\* Properties of MergeSessions
\* ------------------------------------------------------------------------
\* the groups of the loop of MergeSessions without its early termination,
\* each group the set of photo ids of its sessions
RECURSIVE GroupsWithoutEarlyExit(_, _, _, _, _)
GroupsWithoutEarlyExit(ss, k, group, acc, p) ==
    LET idsOf(g) == UNION {{g[n].AssetIDs[a] : a \in DOMAIN g[n].AssetIDs} : n \in 1..Len(g)}
    IN  IF k > Len(ss) THEN Append(acc, idsOf(group))
        ELSE IF canMerge(group, ss[k], p)
             THEN GroupsWithoutEarlyExit(ss, k + 1, Append(group, ss[k]), acc, p)
             ELSE GroupsWithoutEarlyExit(ss, k + 1, <<ss[k]>>, Append(acc, idsOf(group)), p)

GroupsOf(out) ==
    [k \in 1..Len(out) |-> {out[k].AssetIDs[a] : a \in DOMAIN out[k].AssetIDs}]

EarlyExitFires ==
    /\ mpc = "loop"
    /\ mi <= Len(sortedSessions)
    /\ timeGapFromEarliest(currentGroup, sortedSessions[mi]) > mergeParams.maxTimeGapHours

\* C20: whenever the early-exit test fires for a candidate, no session of the
\* current group is within the merge time gap of the candidate, and the
\* groups MergeSessions returns are the groups the loop gives without the
\* early exit.
C20_EarlyExitPureOptimisation ==
    /\ EarlyExitFires =>
         \A k \in 1..Len(currentGroup) :
            sortedSessions[mi].StartTime - currentGroup[k].EndTime
                > mergeParams.maxTimeGapHours
    /\ (mpc = "done" /\ Len(mergeInput) > 1) =>
         GroupsOf(merged) =
            GroupsWithoutEarlyExit(sortedSessions, 2, <<sortedSessions[1]>>, <<>>,
                                   mergeParams)

\* the input sessions an output session was made of
MembersOf(out) ==
    {n \in 1..Len(mergeInput) :
        \E a \in DOMAIN out.AssetIDs : out.AssetIDs[a] = mergeInput[n].AssetIDs[1]}

\* twice the mean of the member centres would lose nothing; the centres are
\* multiples of 12, so the mean itself is whole
MeanCenter(members) ==
    LET RECURSIVE SumOf(_)
        SumOf(S) == IF S = {} THEN 0
                    ELSE LET n == CHOOSE n \in S : TRUE
                         IN  mergeInput[n].Center + SumOf(S \ {n})
    IN  SumOf(members) \div Cardinality(members)

StatedRadius(members) ==
    LET c == MeanCenter(members)
    IN  CHOOSE r \in {Abs(mergeInput[n].Center - c) + mergeInput[n].Radius : n \in members} :
            \A n \in members : r >= Abs(mergeInput[n].Center - c) + mergeInput[n].Radius

\* C21: every returned session that combines two or more input sessions has
\* the radius computed from its members (largest distance from the mean of
\* the member centres to a member centre plus that member's radius), and
\* that radius is at most 50 km.
C21_MergedRadiusCapped ==
    mpc = "done" =>
        \A k \in 1..Len(merged) :
            Cardinality(MembersOf(merged[k])) >= 2 =>
                /\ merged[k].Radius = StatedRadius(MembersOf(merged[k]))
                /\ merged[k].Radius <= maxMergedSessionRadius

\* a merge of sessions 48 km apart was returned, and a session with passing
\* pairwise thresholds was kept out of a group
C21_Witness ==
    /\ mpc = "done"
    /\ \E k \in 1..Len(merged) :
         /\ Cardinality(MembersOf(merged[k])) >= 2
         /\ merged[k].Radius >= 24
    /\ \E k \in 1..Len(merged) :
         /\ Cardinality(MembersOf(merged[k])) = 1
         /\ merged[k].Radius = 30

IdsOf(session) == {session.AssetIDs[a] : a \in DOMAIN session.AssetIDs}

\* C22: every input session contributes to exactly one returned session, the
\* photo ids of the returned sessions are those of the input sessions, and
\* no returned session lists a photo id twice.
C22_MergeConservesPhotos ==
    mpc = "done" =>
        /\ \A n \in 1..Len(mergeInput) :
             Cardinality({k \in 1..Len(merged) :
                            IdsOf(mergeInput[n]) \cap IdsOf(merged[k]) # {}}) = 1
        /\ UNION {IdsOf(merged[k]) : k \in 1..Len(merged)}
             = UNION {IdsOf(mergeInput[n]) : n \in 1..Len(mergeInput)}
        /\ \A k \in 1..Len(merged) :
             \A a, b \in DOMAIN merged[k].AssetIDs :
                merged[k].AssetIDs[a] = merged[k].AssetIDs[b] => a = b

\* three sessions went in, a combined session and a single one came out
C22_Witness ==
    /\ mpc = "done"
    /\ Len(mergeInput) = 3
    /\ Len(merged) = 2
    /\ \E k \in 1..Len(merged) : Len(merged[k].AssetIDs) = 2

\* session n of the input has the one photo n, taken at its start
CaptureTime(id) == mergeInput[id].StartTime

\* C23: the photo-id list of every session MergeSessions returns is ordered
\* by capture time.
C23_PhotoIdsInCaptureOrder ==
    mpc = "done" =>
        \A k \in 1..Len(merged) :
            \A a, b \in DOMAIN merged[k].AssetIDs :
                a < b => CaptureTime(merged[k].AssetIDs[a])
                            <= CaptureTime(merged[k].AssetIDs[b])
\* C30: in the photographer list of a trip every name occurs once and the
\* names are in sorted order, also when the sessions come from the merge
\* pass.
C30_TripPhotographersSortedUnique ==
    mpc = "trip" =>
        \A a, b \in DOMAIN tripPhotographers :
            a < b => NameRank(tripPhotographers[a]) < NameRank(tripPhotographers[b])

\* ------------------------------------------------------------------------
\* The stage commands over the devices, sessions and trips tables
\* (cmd/discover.go, cmd/sessions.go, cmd/trips.go, database.go)
\* ------------------------------------------------------------------------
\* what one discover run fetched: the counters of its apple-iphone photos and
\* the number of its canon-eos photos
LibraryInputs ==
    { [ Iphone |-> g, Canon |-> c ] :
        g \in { <<>>, SortedCounters(<<20, 0, 0, 0>>), SortedCounters(<<10, 0, 0, 10>>) },
        c \in {0, 3} }

\* identifySubDevices on the apple-iphone group
IphoneDevices(counters) ==
    IF counters = <<>> THEN {}
    ELSE LET sig == SignificantOf(counters, 0)
         IN  IF sig = <<>>
             THEN { [ ID |-> GroupMakeModel, PhotoCount |-> Len(counters) ] }
             ELSE { DevicesOf(sig)[k] : k \in 1..Len(sig) }

\* fewer than 20 canon-eos photos: one device
CanonDevices(count) ==
    IF count = 0 THEN {} ELSE { [ ID |-> <<"canon", "eos">>, PhotoCount |-> count ] }

DiscoverDevices(library) == IphoneDevices(library.Iphone) \cup CanonDevices(library.Canon)

\* INSERT OR REPLACE of every device, with the empty Photographer
\* DiscoverDevices leaves in it
StoreDevices(table, devices) ==
    [ d \in DOMAIN table \cup { dev.ID : dev \in devices } |->
        IF \E dev \in devices : dev.ID = d
        THEN [ PhotoCount   |-> (CHOOSE dev \in devices : dev.ID = d).PhotoCount,
               Photographer |-> "" ]
        ELSE table[d] ]

\* the steps of StoreSessions and StoreTrips that can return an error
StoreSteps == {"delete", "begin", "prepare", "insert", "commit"}

\* the table after StoreSessions or StoreTrips: the DELETE runs on the
\* connection, outside the transaction that holds the inserts
TableAfterStore(table, rows, failsAt) ==
    IF failsAt = "none" THEN rows
    ELSE IF failsAt = "delete" THEN table
    ELSE <<>>

StoreSessions(table, rows, failsAt) == TableAfterStore(table, rows, failsAt)

StoreTrips(table, rows, failsAt) == TableAfterStore(table, rows, failsAt)

\* what DetectSessions of one detect-sessions run returned
SessionListInputs ==
    { <<>>,
      << [ StartTime |-> 0, EndTime |-> 1 ] >>,
      << [ StartTime |-> 0, EndTime |-> 1 ], [ StartTime |-> 5, EndTime |-> 6 ] >> }

\* DetectTrips without home locations and split dates and with a session gap
\* and a duration every input meets: all sessions are away and form one
\* trip, kept if it has min-sessions sessions
DetectTripsNoHomes(ss, minSessions) ==
    IF Len(ss) = 0 \/ Len(ss) < minSessions THEN <<>>
    ELSE << [ StartTime |-> ss[1].StartTime, EndTime |-> ss[Len(ss)].EndTime,
              SessionCount |-> Len(ss) ] >>

NoRun == [ command |-> "none", outcome |-> "none", detected |-> <<>> ]

StoreInit ==
    /\ devicesTable = [ d \in {} |-> [ PhotoCount |-> 0, Photographer |-> "" ] ]
    /\ sessionsTable = <<>>
    /\ tripsTable = <<>>
    /\ lastRun = NoRun
    /\ runs = 0

StoreIdle ==
    /\ devicesTable = [ d \in {} |-> [ PhotoCount |-> 0, Photographer |-> "" ] ]
    /\ sessionsTable = <<>>
    /\ tripsTable = <<>>
    /\ lastRun = [ command |-> "idle", outcome |-> "none", detected |-> <<>> ]
    /\ runs = 0

\* discover: DiscoverDevices, then StoreDevices commits
RunDiscover ==
    /\ runs < MaxRuns
    /\ \E library \in LibraryInputs :
          /\ devicesTable' = StoreDevices(devicesTable, DiscoverDevices(library))
          /\ lastRun' = [ command |-> "discover", outcome |-> "ok",
                          detected |-> DiscoverDevices(library) ]
    /\ runs' = runs + 1
    /\ UNCHANGED <<sessionsTable, tripsTable>>
    /\ UNCHANGED nonStoreVars

\* discover: StoreDevices returns an error, its transaction is rolled back
RunDiscoverStoreFails ==
    /\ runs < MaxRuns
    /\ \E library \in LibraryInputs :
          lastRun' = [ command |-> "discover", outcome |-> "error",
                       detected |-> DiscoverDevices(library) ]
    /\ runs' = runs + 1
    /\ UNCHANGED <<devicesTable, sessionsTable, tripsTable>>
    /\ UNCHANGED nonStoreVars

\* UpdateDevicePhotographer, from the labeling of devices
LabelDevice ==
    /\ \E d \in DOMAIN devicesTable, name \in {"A", "B"} :
          /\ devicesTable[d].Photographer # name
          /\ devicesTable' = [ devicesTable EXCEPT ![d].Photographer = name ]
    /\ lastRun' = [ command |-> "label-devices", outcome |-> "ok", detected |-> <<>> ]
    /\ UNCHANGED <<sessionsTable, tripsTable, runs>>
    /\ UNCHANGED nonStoreVars

\* detect-sessions: DetectSessions, then StoreSessions
RunDetectSessions ==
    /\ runs < MaxRuns
    /\ \E detected \in SessionListInputs, failsAt \in StoreSteps \cup {"none"} :
          /\ sessionsTable' = StoreSessions(sessionsTable, detected, failsAt)
          /\ lastRun' = [ command |-> "detect-sessions",
                          outcome |-> IF failsAt = "none" THEN "ok" ELSE "error",
                          detected |-> detected ]
    /\ runs' = runs + 1
    /\ UNCHANGED <<devicesTable, tripsTable>>
    /\ UNCHANGED nonStoreVars

\* detect-trips: no sessions found
RunTripsNoSessions ==
    /\ runs < MaxRuns
    /\ Len(sessionsTable) = 0
    /\ lastRun' = [ command |-> "detect-trips", outcome |-> "error", detected |-> <<>> ]
    /\ runs' = runs + 1
    /\ UNCHANGED <<devicesTable, sessionsTable, tripsTable>>
    /\ UNCHANGED nonStoreVars

\* detect-trips: DetectTrips returns no trip, the command returns nil
RunTripsNoTrips ==
    /\ runs < MaxRuns
    /\ Len(sessionsTable) > 0
    /\ \E minSessions \in {1, 2, 3} :
          Len(DetectTripsNoHomes(sessionsTable, minSessions)) = 0
    /\ lastRun' = [ command |-> "detect-trips", outcome |-> "ok", detected |-> <<>> ]
    /\ runs' = runs + 1
    /\ UNCHANGED <<devicesTable, sessionsTable, tripsTable>>
    /\ UNCHANGED nonStoreVars

\* detect-trips: DetectTrips returns trips, then StoreTrips
RunTripsStore ==
    /\ runs < MaxRuns
    /\ Len(sessionsTable) > 0
    /\ \E minSessions \in {1, 2, 3}, failsAt \in StoreSteps \cup {"none"} :
          LET detected == DetectTripsNoHomes(sessionsTable, minSessions)
          IN  /\ Len(detected) > 0
              /\ tripsTable' = StoreTrips(tripsTable, detected, failsAt)
              /\ lastRun' = [ command |-> "detect-trips",
                              outcome |-> IF failsAt = "none" THEN "ok" ELSE "error",
                              detected |-> detected ]
    /\ runs' = runs + 1
    /\ UNCHANGED <<devicesTable, sessionsTable>>
    /\ UNCHANGED nonStoreVars

StoreNext ==
    \/ RunDiscover
    \/ RunDiscoverStoreFails
    \/ LabelDevice
    \/ RunDetectSessions
    \/ RunTripsNoSessions
    \/ RunTripsNoTrips
    \/ RunTripsStore

\* ------------------------------------------------------------------------
\* Properties of the stage commands
\* ------------------------------------------------------------------------
\* C24: after a detect-trips run that completed without error the stored
\* trips are the trips that run detected, also when it detected none.
C24_TripsReplaced ==
    (lastRun.command = "detect-trips" /\ lastRun.outcome = "ok") =>
        tripsTable = lastRun.detected

\* C25: after a discover run that completed without error the stored device
\* ids are the ids that run resolved.
C25_DevicesReplaced ==
    (lastRun.command = "discover" /\ lastRun.outcome = "ok") =>
        DOMAIN devicesTable = { dev.ID : dev \in lastRun.detected }

\* C27: a discover run leaves the photographer label of every device that
\* carries one as it was.
C27_DiscoverKeepsLabels ==
    [][ lastRun'.command = "discover" =>
          \A d \in DOMAIN devicesTable :
             devicesTable[d].Photographer # "" =>
                /\ d \in DOMAIN devicesTable'
                /\ devicesTable'[d].Photographer = devicesTable[d].Photographer ]_vars

\* C28: a detect-sessions or detect-trips run whose store returns an error
\* leaves the stored sessions and the stored trips as they were.
C28_FailedStoreChangesNothing ==
    [][ (runs' # runs /\ lastRun'.outcome = "error") =>
          /\ sessionsTable' = sessionsTable
          /\ tripsTable' = tripsTable ]_vars
\* ------------------------------------------------------------------------
\* extractLocationFromSessions (part_006)
\* ------------------------------------------------------------------------
CityNames == {"", "Oslo", "Rome"}
CountryNames == {"", "Norway", "Italy"}

\* cityCount / countryCount: occurrences of a non-empty value of the field
CountOf(photos, field, value) ==
    Cardinality({k \in 1..Len(photos) : photos[k][field] = value})

\* the values the loop over the count map can leave in bestCity or
\* bestCountry: the first key visited among those with the largest count,
\* the empty string when the map is empty
MostCommon(photos, field) ==
    LET keys == {photos[k][field] : k \in 1..Len(photos)} \ {""}
    IN  IF keys = {} THEN {""}
        ELSE {v \in keys : \A w \in keys : CountOf(photos, field, v) >= CountOf(photos, field, w)}

\* "City, Country", or the one that is not empty, or ""
FormatLocation(bestCity, bestCountry) ==
    IF bestCity # "" /\ bestCountry # "" THEN <<bestCity, ", ", bestCountry>>
    ELSE IF bestCity # "" THEN <<bestCity>>
    ELSE IF bestCountry # "" THEN <<bestCountry>>
    ELSE <<>>

\* the location strings a call can return
extractLocationFromSessions(photos) ==
    {FormatLocation(c, n) : c \in MostCommon(photos, "City"),
                            n \in MostCommon(photos, "Country")}

NameInit ==
    /\ \E n \in 1..MaxTripPhotos :
          tripPhotos \in [1..n -> [City : CityNames, Country : CountryNames]]
    /\ locations = <<>>

NameIdle ==
    /\ tripPhotos = <<>>
    /\ locations = <<>>

\* one run of DetectTrips names the trip of these photos
NameTrip ==
    /\ Len(tripPhotos) > 0
    /\ Len(locations) < MaxCalls
    /\ \E location \in extractLocationFromSessions(tripPhotos) :
          locations' = Append(locations, location)
    /\ UNCHANGED tripPhotos
    /\ UNCHANGED nonNameVars

NameNext == NameTrip

\* C31: two runs over the same sessions and photo metadata give the trip the
\* same location name.
C31_TripNameDeterministic ==
    \A a, b \in 1..Len(locations) : locations[a] = locations[b]

\* ------------------------------------------------------------------------
\* create-albums
\* ------------------------------------------------------------------------
\* the results of the calls made for one trip: DeleteAlbum, CreateAlbum and
\* UpdateTripAlbumID each succeed or return an error
CallOutcomes == [ del : BOOLEAN, create : BOOLEAN, save : BOOLEAN ]

\* UPDATE trips SET album_id = ? WHERE id = ?
UpdateTripAlbumID(table, tripID, albumID) ==
    [ k \in 1..Len(table) |->
        IF table[k].ID = tripID THEN [ table[k] EXCEPT !.AlbumID = albumID ]
        ELSE table[k] ]

\* the id Immich gives to the next album
FreshAlbumID(calls) ==
    1 + Cardinality({ k \in 1..Len(calls) : calls[k].Op = "create" /\ calls[k].Ok })

CallEntry(run, op, trip, album, ok) ==
    [ Run |-> run, Op |-> op, Trip |-> trip.ID, Album |-> album,
      Stored |-> trip.AlbumID, Ok |-> ok ]

\* client.DeleteAlbum(trip.AlbumID); an error is a warning
DeleteAlbum(st, trip, run, o) ==
    [ st EXCEPT !.albums = IF o.del THEN @ \ {trip.AlbumID} ELSE @,
                !.calls = Append(@, CallEntry(run, "delete", trip, trip.AlbumID, o.del)) ]

\* client.CreateAlbum, then db.UpdateTripAlbumID; an error of CreateAlbum
\* skips the trip, an error of the update is a warning
CreateAndSave(st, trip, run, o) ==
    LET albumID == FreshAlbumID(st.calls) IN
    IF ~o.create
    THEN [ st EXCEPT !.calls = Append(@, CallEntry(run, "create", trip, 0, FALSE)) ]
    ELSE [ table  |-> IF o.save THEN UpdateTripAlbumID(st.table, trip.ID, albumID)
                      ELSE st.table,
           albums |-> st.albums \cup {albumID},
           calls  |-> st.calls \o << CallEntry(run, "create", trip, albumID, TRUE),
                                     CallEntry(run, "save", trip, albumID, o.save) >> ]

\* the body of the loop over the trips GetTrips returned
ProcessTrip(st, trip, recreate, run, o) ==
    IF trip.ExcludeFromAlbum THEN st
    ELSE IF trip.AlbumID # 0 /\ ~recreate THEN st
    ELSE IF trip.AlbumID # 0
         THEN CreateAndSave(DeleteAlbum(st, trip, run, o), trip, run, o)
         ELSE CreateAndSave(st, trip, run, o)

RECURSIVE AlbumLoop(_, _, _, _, _, _)
AlbumLoop(loaded, k, st, recreate, run, outcomes) ==
    IF k > Len(loaded) THEN st
    ELSE AlbumLoop(loaded, k + 1,
                   ProcessTrip(st, loaded[k], recreate, run, outcomes[k]),
                   recreate, run, outcomes)

\* StoreTrips: DELETE FROM trips, then one INSERT for each trip, which sets
\* neither album_id nor exclude_from_album
InsertedTrips(seq, n) ==
    [ k \in 1..n |-> [ ID |-> seq + k, AlbumID |-> 0, ExcludeFromAlbum |-> FALSE ] ]

CommandName(recreate) ==
    IF recreate THEN "create-albums --recreate" ELSE "create-albums"

\* a store that is new or holds the trips of a detect-trips run, some of
\* them excluded from album creation in the web UI
AlbumInit ==
    /\ \E n \in 0..MaxAlbumTrips :
          /\ \E x \in [1..n -> BOOLEAN] :
                albumTrips = [ k \in 1..n |->
                                 [ ID |-> k, AlbumID |-> 0, ExcludeFromAlbum |-> x[k] ] ]
          /\ tripSeq = n
    /\ immichAlbums = {}
    /\ albumCalls = <<>>
    /\ commands = <<>>

AlbumIdle ==
    /\ albumTrips = <<>>
    /\ tripSeq = 0
    /\ immichAlbums = {}
    /\ albumCalls = <<>>
    /\ commands = <<>>

\* create-albums with no trips in the store: "No trips found"
CreateAlbumsNoTrips ==
    /\ Len(commands) < MaxAlbumRuns
    /\ Len(albumTrips) = 0
    /\ \E recreate \in BOOLEAN :
          commands' = Append(commands, CommandName(recreate))
    /\ UNCHANGED <<albumTrips, tripSeq, immichAlbums, albumCalls>>
    /\ UNCHANGED nonAlbumVars

\* create-albums, with or without --recreate
RunCreateAlbums ==
    /\ Len(commands) < MaxAlbumRuns
    /\ Len(albumTrips) > 0
    /\ \E recreate \in BOOLEAN :
       \E outcomes \in [1..Len(albumTrips) -> CallOutcomes] :
          LET st == AlbumLoop(albumTrips, 1,
                              [ table |-> albumTrips, albums |-> immichAlbums,
                                calls |-> albumCalls ],
                              recreate, Len(commands) + 1, outcomes)
          IN /\ albumTrips' = st.table
             /\ immichAlbums' = st.albums
             /\ albumCalls' = st.calls
             /\ commands' = Append(commands, CommandName(recreate))
    /\ UNCHANGED tripSeq
    /\ UNCHANGED nonAlbumVars

\* detect-trips that finds trips and stores them
AlbumsDetectTrips ==
    /\ Len(commands) < MaxAlbumRuns
    /\ \E n \in 1..MaxAlbumTrips :
          /\ albumTrips' = InsertedTrips(tripSeq, n)
          /\ tripSeq' = tripSeq + n
    /\ commands' = Append(commands, "detect-trips")
    /\ UNCHANGED <<immichAlbums, albumCalls>>
    /\ UNCHANGED nonAlbumVars

AlbumNext ==
    \/ CreateAlbumsNoTrips
    \/ RunCreateAlbums
    \/ AlbumsDetectTrips

\* ------------------------------------------------------------------------
\* Properties of create-albums
\* ------------------------------------------------------------------------
\* the calls of one kind that succeeded
CallsDone(op) ==
    { k \in 1..Len(albumCalls) : albumCalls[k].Op = op /\ albumCalls[k].Ok }

\* C34: over any number of create-albums runs without --recreate and with no
\* detect-trips run in between, at most one album is created for a stored
\* trip, none for an excluded trip, and a trip with a stored album id
\* triggers no create or delete call.
C34_CreateAlbumsIdempotent ==
    (\A c \in 1..Len(commands) : commands[c] = "create-albums")
    => /\ \A t \in 1..Len(albumTrips) :
             Cardinality({ k \in CallsDone("create") :
                              albumCalls[k].Trip = albumTrips[t].ID }) <= 1
       /\ \A t \in 1..Len(albumTrips) :
             albumTrips[t].ExcludeFromAlbum
             => \A k \in 1..Len(albumCalls) : albumCalls[k].Trip # albumTrips[t].ID
       /\ \A k \in 1..Len(albumCalls) :
             albumCalls[k].Op \in {"create", "delete"} => albumCalls[k].Stored = 0

\* C35: after create-albums, detect-trips and create-albums --recreate, with
\* no call failing, no album created by the first create-albums run is left
\* in Immich.
C35_RecreateLeavesNoOldAlbum ==
    ( /\ commands = << "create-albums", "detect-trips", "create-albums --recreate" >>
      /\ \A k \in 1..Len(albumCalls) : albumCalls[k].Ok )
    => \A k \in CallsDone("create") :
          albumCalls[k].Run = 1 => albumCalls[k].Album \notin immichAlbums


Init == TripInit /\ ClusterIdle /\ InferIdle /\ PipelineIdle /\ DecayIdle /\ DeviceIdle /\ MatchIdle /\ MergeIdle /\ StoreIdle /\ NameIdle /\ AlbumIdle

Next == TripNext

Spec == Init /\ [][Next]_vars

InitCluster == ClusterInit /\ TripIdle /\ InferIdle /\ PipelineIdle /\ DecayIdle /\ DeviceIdle /\ MatchIdle /\ MergeIdle /\ StoreIdle /\ NameIdle /\ AlbumIdle

SpecCluster == InitCluster /\ [][ClusterNext]_vars

InitInfer == InferInit /\ TripIdle /\ ClusterIdle /\ PipelineIdle /\ DecayIdle /\ DeviceIdle /\ MatchIdle /\ MergeIdle /\ StoreIdle /\ NameIdle /\ AlbumIdle

SpecInfer == InitInfer /\ [][InferNext]_vars

InitPipeline == PipelineInit /\ TripIdle /\ ClusterIdle /\ InferIdle /\ DecayIdle /\ DeviceIdle /\ MatchIdle /\ MergeIdle /\ StoreIdle /\ NameIdle /\ AlbumIdle

SpecPipeline == InitPipeline /\ [][PipelineNext]_vars

InitDecay == DecayInit /\ TripIdle /\ ClusterIdle /\ InferIdle /\ PipelineIdle /\ DeviceIdle /\ MatchIdle /\ MergeIdle /\ StoreIdle /\ NameIdle /\ AlbumIdle

SpecDecay == InitDecay /\ [][DecayNext]_vars

InitDevices == DeviceInit /\ TripIdle /\ ClusterIdle /\ InferIdle /\ PipelineIdle /\ DecayIdle /\ MatchIdle /\ MergeIdle /\ StoreIdle /\ NameIdle /\ AlbumIdle

SpecDevices == InitDevices /\ [][DeviceNext]_vars

InitMatch == MatchInit /\ TripIdle /\ ClusterIdle /\ InferIdle /\ PipelineIdle /\ DecayIdle /\ DeviceIdle /\ MergeIdle /\ StoreIdle /\ NameIdle /\ AlbumIdle

SpecMatch == InitMatch /\ [][MatchNext]_vars

InitMerge == MergeInit /\ TripIdle /\ ClusterIdle /\ InferIdle /\ PipelineIdle /\ DecayIdle /\ DeviceIdle /\ MatchIdle /\ StoreIdle /\ NameIdle /\ AlbumIdle

SpecMerge == InitMerge /\ [][MergeNext]_vars

InitStore == StoreInit /\ TripIdle /\ ClusterIdle /\ InferIdle /\ PipelineIdle /\ DecayIdle /\ DeviceIdle /\ MatchIdle /\ MergeIdle /\ NameIdle /\ AlbumIdle

SpecStore == InitStore /\ [][StoreNext]_vars

InitName == NameInit /\ TripIdle /\ ClusterIdle /\ InferIdle /\ PipelineIdle /\ DecayIdle /\ DeviceIdle /\ MatchIdle /\ MergeIdle /\ StoreIdle /\ AlbumIdle

SpecName == InitName /\ [][NameNext]_vars

InitAlbums == AlbumInit /\ TripIdle /\ ClusterIdle /\ InferIdle /\ PipelineIdle /\ DecayIdle /\ DeviceIdle /\ MatchIdle /\ MergeIdle /\ StoreIdle /\ NameIdle

SpecAlbums == InitAlbums /\ [][AlbumNext]_vars

====
